---- MODULE Spec2Model ----
(***************************************************************************)
(* HorioHop: the journey orchestrator (AppProvider of AppContext.tsx), the *)
(* origin resolver and the routing client boundary, as a state machine     *)
(* (Spec); the geometry codec decodePolyline (CodecSpec), the routing      *)
(* client planJourney with its mapping parseItinerary (RoutingSpec) and    *)
(* the demand ledger of demand.ts (LedgerSpec), its seeding (SeedSpec) and  *)
(* the demand counts of a page session (SessionSpec), the form of          *)
(* DemandDialog (DialogSpec) and addDemand called from two tabs (TabsSpec). *)
(* FairSpec is Spec with every routing call settling.  Each runs one       *)
(* component and leaves the variables of the others as Init set them.      *)
(*                                                                         *)
(* One action is one event handler together with the React effects its     *)
(* state update triggers (effects are flushed before the next event).      *)
(* Coordinates are <<lat, lng>> scaled by 1e4.  A null of the source is a   *)
(* value of the same shape: NoCoord, NoCity, NoVillage, NoRoute, NoError.  *)
(***************************************************************************)
EXTENDS Integers, Sequences, FiniteSets, Bags, TLC

\* ------------------------------------------------------------------ bounds
MaxVillages == 2     \* villages of villages.json that are clicked
MaxFetches  == 2     \* fetchRoutes invocations issued in one session
MaxRoutes   == 1     \* itineraries in one routing response
MaxTime     == 1     \* distinct readings of new Date()
MaxLen      == 3     \* code units of an arbitrary encoded geometry string
MaxPoints   == 2     \* points of a well-formed encoded geometry string
MaxLegs     == 2     \* legs of one raw itinerary
MaxRecords  == 3     \* addDemand calls in one session
MaxTicks    == 4     \* steps of TickDays days the clock advances
MaxRequests == 2     \* records prepopulateDemands seeds for one village
MaxSeeded   == 4     \* records prepopulateDemands seeds in one session
MaxSubmits  == 2     \* demand requests submitted on the page
MaxPrepays  == 1     \* demand requests submitted from the form of the dialog

\* --------------------------------------------------------- value domains
NoCoord   == <<>>
NoCity    == "null"
NoVillage == 0
NoError   == "null"
NoRoute   == [direction |-> "null", index |-> 0 - 1]
NoSource  == [village |-> NoVillage, origin |-> NoCoord]

Villages == 1 .. MaxVillages
Times    == 0 .. MaxTime
Directions == {"to", "from"}

\* Village.lat / Village.lng of a villages.json entry
VillageCoord(v) == <<349000 + v, 328000 + v>>

CITY_COORDS ==
    [ Nicosia  |-> <<351856, 333823>>,
      Limassol |-> <<346823, 330464>>,
      Larnaca  |-> <<349229, 336233>>,
      Paphos   |-> <<347754, 324245>> ]

CITIES == DOMAIN CITY_COORDS

\* the cities picked in the selector
CityChoices == {"Nicosia", "Limassol"}

\* positions the geolocation boundary may report
DevicePositions == { <<349400, 328700>> }

GeoErrors == { "User denied Geolocation" }

\* ------------------------------------------------------------------ state
VARIABLES
    userLocation,       \* AppState.userLocation
    locationLoading,    \* AppState.locationLoading
    locationError,      \* AppState.locationError
    selectedCity,       \* AppState.selectedCity
    selectedVillage,    \* AppState.selectedVillage
    routesToVillage,    \* AppState.routesToVillage
    routesFromVillage,  \* AppState.routesFromVillage
    routesLoading,      \* AppState.routesLoading
    routesError,        \* AppState.routesError
    selectedRoute,      \* AppState.selectedRoute
    fetches,            \* outstanding fetchRoutes() invocations, a bag
    issued,             \* history: number of fetchRoutes() invocations so far
    routesSource,       \* history: the (village, origin) whose fetch last wrote the lists
    calls,              \* history: the planJourney calls the last handler made
    last,               \* history: the last handler that ran and the state it ran in
    decoder,            \* decodePolyline: its argument, its locals and its position
    response,           \* planJourney: what the routing engine answers
    planned,            \* planJourney: how the returned promise settled
    store,              \* localStorage: the item horiohop_demands
    clock,              \* the reading of new Date(), in days
    uuids,              \* number of crypto.randomUUID() values handed out
    seeded,             \* history: how many of them prepopulateDemands took
    ledgerRet,          \* history: the last call of demand.ts and its outcome
    debugMode,          \* DEBUG_MODE of the build
    page,               \* whether the application is loaded in the browser
    sheetVillage,       \* the id of the village whose sheet is mounted
    sidebarCount,       \* count of useDemand in VillageSheet
    dialogCount,        \* count of useDemand in DemandDialog
    demandCounts,       \* AppState.demandCounts
    partySize,          \* partySize of DemandDialog
    showConfirmation,   \* showConfirmation of DemandDialog
    tabs,               \* each tab's position inside addDemand and its array
    lastWriter          \* history: the tab whose setItem stored last

appVars == << userLocation, locationLoading, locationError, selectedCity,
              selectedVillage, routesToVillage, routesFromVillage, routesLoading,
              routesError, selectedRoute, fetches, issued, routesSource, calls, last >>

codecVars == << decoder >>

routingVars == << response, planned >>

\* the state of the demand counts on the page
demandVars == << debugMode, page, sheetVillage, sidebarCount, dialogCount,
                 demandCounts, partySize, showConfirmation >>

\* the state of the form of DemandDialog
formVars == << partySize, showConfirmation >>

\* the tabs that share the localStorage
tabVars == << tabs, lastWriter >>

ledgerVars == << store, clock, uuids, seeded, ledgerRet, demandVars, tabVars >>

\* the variables the orchestrator never touches
libVars == << codecVars, routingVars, ledgerVars >>

vars == << appVars, libVars >>

locVars   == << userLocation, locationLoading, locationError >>
routeVars == << routesToVillage, routesFromVillage, routesLoading,
                routesError, fetches, issued, routesSource >>
NoCalls   == calls' = <<>>

\* ---------------------------------------------------------------- helpers
\* OriginOf that prefers the chosen city to the device location
OriginOfCityFirst(ul, city) ==
    IF city \in CITIES THEN CITY_COORDS[city]
    ELSE ul

\* const origin = state.userLocation || (state.selectedCity ? CITY_COORDS[...] : null)
OriginOf(ul, city) ==
    IF ul # NoCoord THEN ul
    ELSE IF city \in CITIES THEN CITY_COORDS[city]
    ELSE NoCoord

Origin == OriginOf(userLocation, selectedCity)

\* the bag that holds f once
One(f) == SetToBag({f})

\* what `last` records of a handler that sets the selection or the origin:
\* whether a village was selected, an origin known and an itinerary selected
\* when it ran, and whether it changed the village or the origin
Snapshot(op, village, origin) ==
    [ op         |-> op,
      village    |-> selectedVillage # NoVillage,
      newVillage |-> village # selectedVillage,
      origin     |-> Origin # NoCoord,
      newOrigin  |-> origin # Origin,
      hadRoute   |-> selectedRoute # NoRoute ]

\* what `last` records of any other handler
Other ==
    [ op |-> "other", village |-> FALSE, newVillage |-> FALSE,
      origin |-> FALSE, newOrigin |-> FALSE, hadRoute |-> FALSE ]

\* ------------------------------------------------------- geometry codec
\* A string is the sequence of its UTF-16 code units.  A 32-bit integer of a
\* bitwise operation is the set of the positions (0 .. 31) of its one bits,
\* position 31 being the sign.  A coordinate n / 1e5 is held as the integer n,
\* in units of 1e-5 degrees.

\* String.prototype.charCodeAt past the end (no code unit is negative)
NaN == 0 - 1

\* CharCodeAt that reads the last code unit again past the end
CharCodeAtClamped(encoded, index) ==
    IF index < Len(encoded) THEN encoded[index + 1]
    ELSE IF Len(encoded) > 0 THEN encoded[Len(encoded)]
    ELSE NaN

\* encoded.charCodeAt(index), index counted from 0
CharCodeAt(encoded, index) ==
    IF index < Len(encoded) THEN encoded[index + 1] ELSE NaN

\* byte & 0x1f for byte = code - 63; NaN converts to 0
Low5(code) == IF code = NaN THEN 0 ELSE (code - 63) % 32

\* byte >= 0x20 for byte = code - 63; every comparison with NaN is false
Continues(code) == code # NaN /\ code - 63 >= 32

\* the one bits of n, 0 <= n < 32
Bits5(n) == { b \in 0 .. 4 : (n \div (2 ^ b)) % 2 = 1 }

\* bits << shift: the shift count is taken modulo 32, bits moved past
\* position 31 are lost
ShiftLeft(bits, shift) ==
    { b + (shift % 32) : b \in { c \in bits : c + (shift % 32) <= 31 } }

RECURSIVE SumPow2(_)
SumPow2(positions) ==
    IF positions = {} THEN 0
    ELSE LET b == CHOOSE c \in positions : TRUE
         IN  (2 ^ b) + SumPow2(positions \ {b})

\* bits >> 1 as a number: sign-propagating, so position 31 stays set
ShiftRight1(bits) ==
    SumPow2({ b - 1 : b \in { c \in bits : c >= 1 /\ c <= 30 } })
      - (IF 31 \in bits THEN 2 ^ 30 ELSE 0)

\* result & 1 ? ~(result >> 1) : result >> 1
Delta(bits) ==
    IF 0 \in bits THEN 0 - ShiftRight1(bits) - 1 ELSE ShiftRight1(bits)

\* decodePolyline(encoded) at its first statement
DecoderStart(encoded) ==
    [ encoded |-> encoded, pc |-> "while", index |-> 0, shift |-> 0,
      result |-> {}, lat |-> 0, lng |-> 0, points |-> <<>>, steps |-> 0 ]

\* DecodeStep with `while (index <= encoded.length)`
DecodeStepOffByOne(d) ==
    IF d.pc = "while"
    THEN IF d.index <= Len(d.encoded)
         THEN [d EXCEPT !.pc = "lat", !.shift = 0, !.result = {}, !.steps = @ + 1]
         ELSE [d EXCEPT !.pc = "return", !.steps = @ + 1]
    ELSE LET code   == CharCodeAt(d.encoded, d.index)
             result == d.result \cup ShiftLeft(Bits5(Low5(code)), d.shift)
         IN  IF Continues(code)
             THEN [d EXCEPT !.index = @ + 1, !.result = result,
                            !.shift = @ + 5, !.steps = @ + 1]
             ELSE IF d.pc = "lat"
                  THEN [d EXCEPT !.index = @ + 1, !.lat = @ + Delta(result),
                                 !.shift = 0, !.result = {},
                                 !.pc = "lng", !.steps = @ + 1]
                  ELSE [d EXCEPT !.index = @ + 1, !.lng = @ + Delta(result),
                                 !.shift = 0, !.result = {},
                                 !.points = Append(@, <<d.lat, d.lng + Delta(result)>>),
                                 !.pc = "while", !.steps = @ + 1]

\* one step of decodePolyline: the test of the outer while, or one pass of
\* the body of one of the two do-while loops together with its test and, when
\* the loop ends, the statements up to the next loop.  steps counts the steps
DecodeStep(d) ==
    IF d.pc = "while"
    THEN IF d.index < Len(d.encoded)
         THEN [d EXCEPT !.pc = "lat", !.shift = 0, !.result = {}, !.steps = @ + 1]
         ELSE [d EXCEPT !.pc = "return", !.steps = @ + 1]
    ELSE LET code   == CharCodeAt(d.encoded, d.index)
             result == d.result \cup ShiftLeft(Bits5(Low5(code)), d.shift)
         IN  IF Continues(code)
             THEN [d EXCEPT !.index = @ + 1, !.result = result,
                            !.shift = @ + 5, !.steps = @ + 1]
             ELSE IF d.pc = "lat"
                  THEN [d EXCEPT !.index = @ + 1, !.lat = @ + Delta(result),
                                 !.shift = 0, !.result = {},
                                 !.pc = "lng", !.steps = @ + 1]
                  ELSE [d EXCEPT !.index = @ + 1, !.lng = @ + Delta(result),
                                 !.shift = 0, !.result = {},
                                 !.points = Append(@, <<d.lat, d.lng + Delta(result)>>),
                                 !.pc = "while", !.steps = @ + 1]

RECURSIVE RunDecoder(_)
RunDecoder(d) == IF d.pc = "return" THEN d ELSE RunDecoder(DecodeStep(d))

\* the value decodePolyline(encoded) returns
DecodePolyline(encoded) == RunDecoder(DecoderStart(encoded)).points

\* code units of geometry strings: '>' (below the offset 63), '?', '@', 'A',
\* '_' and '`' (both with the continuation bit 0x20)
CodeUnits == {62, 63, 64, 65, 95, 96}

RECURSIVE StringsOfLen(_)
StringsOfLen(n) ==
    IF n = 0 THEN { <<>> }
    ELSE { Append(s, c) : s \in StringsOfLen(n - 1), c \in CodeUnits }

\* "_p~iF~ps|U_ulLnnqC_mqNvxq`@"
ReferenceString ==
    << 95, 112, 126, 105, 70, 126, 112, 115, 124, 85, 95, 117, 108, 76,
       110, 110, 113, 67, 95, 109, 113, 78, 118, 120, 113, 96, 64 >>

\* eight continuation units: the eighth group is shifted by 35, that is by 3
LongGroup == << 96, 95, 95, 95, 95, 95, 95, 96, 64, 63 >>

\* no decodePolyline call is running
NoDecoder == [ pc |-> "idle" ]

CodecIdle == decoder = NoDecoder

\* ------------------------------------------- routing client (planJourney)
\* An optional JSON field is <<>> when it is missing and <<v>> when it holds
\* v.  Of a raw itinerary the model keeps legs, duration and transfers, of a
\* raw leg mode and legGeometry.points; the other fields are copied or
\* defaulted one by one and take no part in what follows.
Undefined == <<>>

\* x || 0 for an optional number
OrZero(x) == IF x = Undefined \/ x[1] = 0 THEN 0 ELSE x[1]

Max(a, b) == IF a >= b THEN a ELSE b

Min(a, b) == IF a <= b THEN a ELSE b

\* "??": one point; "??@@": two points
OnePointString == << 63, 63 >>
TwoPointString == << 63, 63, 64, 64 >>

\* legs of a routing response
\* the JSON null in the place of a leg
NullLeg == [null |-> TRUE]

RawLegs ==
    { [mode |-> "WALK",      points |-> Undefined],
      [mode |-> "WALK",      points |-> << TwoPointString >>],
      [mode |-> "BUS",       points |-> << TwoPointString >>],
      [mode |-> "BUS",       points |-> << OnePointString >>],
      [mode |-> "undefined", points |-> << <<>> >>],
      [mode |-> "walk",      points |-> Undefined],
      NullLeg }

RECURSIVE LegSeqsOfLen(_)
LegSeqsOfLen(n) ==
    IF n = 0 THEN { <<>> }
    ELSE { Append(s, leg) : s \in LegSeqsOfLen(n - 1), leg \in RawLegs }

RawDurations == { Undefined, << 0 - 60 >>, << 0 >>, << 600 >> }
RawTransfers == { Undefined, << 0 - 1 >>, << 0 >>, << 1 >>, << 2 >> }

\* itineraries of a routing response; legs may be missing
RawItineraries ==
    [ legs      : { Undefined } \cup
                  { << s >> : s \in UNION { LegSeqsOfLen(n) : n \in 0 .. MaxLegs } },
      duration  : RawDurations,
      transfers : RawTransfers ]

\* one WALK leg without geometry, then one BUS leg with geometry
WalkThenBus ==
    [ legs      |-> << << [mode |-> "WALK", points |-> Undefined],
                          [mode |-> "BUS",  points |-> << TwoPointString >>] >> >>,
      duration  |-> << 600 >>,
      transfers |-> Undefined ]

SampleItineraries ==
    { WalkThenBus,
      [ legs |-> Undefined, duration |-> << 600 >>, transfers |-> << 1 >> ],
      [ legs |-> << << [mode |-> "BUS", points |-> << OnePointString >>] >> >>,
        duration |-> << 0 - 60 >>, transfers |-> << 0 >> ] }

\* what fetch(url) and response.json() may give: a rejected fetch, a status,
\* and for a success a body that is no JSON, the JSON null, or an object
\* whose itineraries is missing, no array, or an array
RoutingResponses ==
    { [kind |-> "networkError", status |-> 0, body |-> "none", itineraries |-> Undefined] }
      \cup { [kind |-> "status", status |-> st, body |-> "none", itineraries |-> Undefined] :
               st \in {404, 500} }
      \cup { [kind |-> "status", status |-> 200, body |-> b, itineraries |-> Undefined] :
               b \in {"notJson", "null", "object", "itinerariesNoArray"} }
      \cup { [kind |-> "status", status |-> 200, body |-> "object", itineraries |-> << its >>] :
               its \in { <<>> } \cup { << r >> : r \in RawItineraries }
                         \cup { << a, b >> : a \in SampleItineraries,
                                             b \in SampleItineraries } }

\* LegMode that tells a walking leg whatever the case of the letters
LegModeAnyCase(rawLeg) ==
    IF rawLeg.mode \in {"WALK", "walk"} THEN "WALK" ELSE "TRANSIT"

\* rawLeg.mode === 'WALK' ? 'WALK' : 'TRANSIT'
LegMode(rawLeg) ==
    IF rawLeg.mode = "WALK" THEN "WALK" ELSE "TRANSIT"

\* ParseLeg that never decodes the geometry
ParseLegNoPolyline(rawLeg) ==
    [ mode     |-> LegMode(rawLeg),
      polyline |-> <<>> ]

\* the leg mapping of parseItinerary
ParseLeg(rawLeg) ==
    [ mode     |-> LegMode(rawLeg),
      polyline |-> IF rawLeg.points # Undefined /\ rawLeg.points[1] # <<>>
                   THEN DecodePolyline(rawLeg.points[1])
                   ELSE <<>> ]

\* parseItinerary(raw) for a raw itinerary that has legs
ParseItinerary(raw) ==
    LET legs == [ k \in 1 .. Len(raw.legs[1]) |-> ParseLeg(raw.legs[1][k]) ]
    IN  [ duration  |-> OrZero(raw.duration),
          transfers |-> IF OrZero(raw.transfers) # 0
                        THEN raw.transfers[1]
                        ELSE Max(0, Cardinality({ k \in 1 .. Len(legs) :
                                                    legs[k].mode # "WALK" }) - 1),
          legs      |-> legs ]

\* rawItinerary.legs.map throws a TypeError when legs is missing, and its
\* callback throws one on rawLeg.mode when a leg is null
ParseItineraryThrows(raw) ==
    \/ raw.legs = Undefined
    \/ \E k \in 1 .. Len(raw.legs[1]) : raw.legs[1][k] = NullLeg

\* the try block of planJourney: it returns a value or throws
TryPlanJourney(resp) ==
    IF resp.kind = "networkError" THEN [threw |-> TRUE, value |-> <<>>]
    ELSE IF resp.status # 200
         THEN IF resp.status = 404 THEN [threw |-> FALSE, value |-> <<>>]
              ELSE [threw |-> TRUE, value |-> <<>>]
    ELSE IF resp.body \in {"notJson", "null"} THEN [threw |-> TRUE, value |-> <<>>]
    ELSE IF resp.body = "itinerariesNoArray" THEN [threw |-> TRUE, value |-> <<>>]
    ELSE IF resp.itineraries = Undefined THEN [threw |-> FALSE, value |-> <<>>]
    ELSE LET its == resp.itineraries[1]
         IN  IF \E k \in 1 .. Len(its) : ParseItineraryThrows(its[k])
             THEN [threw |-> TRUE, value |-> <<>>]
             ELSE [threw |-> FALSE,
                   value |-> [ k \in 1 .. Len(its) |-> ParseItinerary(its[k]) ]]

\* CatchPlanJourney that throws the error again
CatchPlanJourneyRethrow(attempt) ==
    IF attempt.threw THEN [settled |-> "rejected", value |-> <<>>]
    ELSE [settled |-> "resolved", value |-> attempt.value]

\* the catch block of planJourney: both of its branches return []
CatchPlanJourney(attempt) ==
    IF attempt.threw THEN [settled |-> "resolved", value |-> <<>>]
    ELSE [settled |-> "resolved", value |-> attempt.value]

\* how the promise planJourney returns settles for a response of the engine
PlanJourneySettles(resp) == CatchPlanJourney(TryPlanJourney(resp))

NoResponse == [kind |-> "none"]
NotPlanned == [settled |-> "pending", value |-> <<>>]

RoutingIdle == response = NoResponse /\ planned = NotPlanned

\* --------------------------------------------------- demand ledger
\* localStorage holds under STORAGE_KEY a text.  JSON.stringify(demands) and
\* JSON.parse carry an array of records unchanged (the records hold strings
\* and integers only), so a stored array is held as the array itself.  store
\* is <<>> when the item is missing and << value >> when it is set, value
\* being what JSON.parse makes of the text: an array of records, another JSON
\* value, or nothing because the text is not JSON.  Time is counted in days;
\* createdAt is the reading of the clock, which toISOString and
\* new Date(string) carry unchanged.
NoItem == <<>>

\* the text of an array of records
JsonArray(demands) == [kind |-> "array", items |-> demands]

\* the text {}
JsonObject == [kind |-> "object", items |-> <<>>]

\* the text null
JsonNull == [kind |-> "null", items |-> <<>>]

\* a text JSON.parse throws on
NotJson == [kind |-> "invalid", items |-> <<>>]

\* a localStorage whose getItem, setItem and removeItem throw
Unreadable == << [kind |-> "unreadable", items |-> <<>>] >>

\* days the clock advances in one step
TickDays == 10

VillageIds == {"x", "y"}

\* (villagesData as Village[]).map((v) => v.id)
AllVillageIds == << "x", "y" >>

\* what the demand dialog submits (Omit<DemandRecord, 'id' | 'createdAt'>)
Submissions ==
    { [villageId |-> "x", originCity |-> "Nicosia", desiredDate |-> "2026-01-24",
       partySize |-> 3, email |-> Undefined],
      [villageId |-> "y", originCity |-> "Limassol", desiredDate |-> "2026-01-25",
       partySize |-> 8, email |-> << "a@example.com" >>] }

\* getDemands(): [] when the item is missing, [] from the catch when getItem
\* or JSON.parse throws, and otherwise whatever JSON.parse returns
GetDemandsReturn ==
    IF store = NoItem THEN JsonArray(<<>>)
    ELSE IF store[1].kind \in {"unreadable", "invalid"} THEN JsonArray(<<>>)
    ELSE store[1]

\* getDemands() is an array: push, filter and reduce exist
IsArray == GetDemandsReturn.kind = "array"

\* the records of getDemands(), none when it is no array
GetDemands == GetDemandsReturn.items

\* the record addDemand builds: the submitted fields, then id and createdAt
NewDemand(demand) ==
    [ villageId   |-> demand.villageId,
      originCity  |-> demand.originCity,
      desiredDate |-> demand.desiredDate,
      partySize   |-> demand.partySize,
      email       |-> demand.email,
      id          |-> uuids + 1,
      createdAt   |-> clock ]

\* what addDemand(demand) does to the ledger and how it ends.
\* crypto.randomUUID() is the next unused identifier; demands.push throws
\* when getDemands() is no array; localStorage.setItem stores the whole
\* collection or throws (quota, no access), and then addDemand throws and
\* the item is as it was
AddDemandEffect(demand) ==
    /\ uuids - seeded < MaxRecords
    /\ uuids' = uuids + 1
    /\ IF ~IsArray
       THEN /\ store' = store
            /\ ledgerRet' = [op |-> "addDemand", threw |-> TRUE,
                             value |-> NewDemand(demand), setItem |-> "notCalled"]
       ELSE \/ /\ store # Unreadable
               /\ store' = << JsonArray(Append(GetDemands, NewDemand(demand))) >>
               /\ ledgerRet' = [op |-> "addDemand", threw |-> FALSE,
                                value |-> NewDemand(demand), setItem |-> "stored"]
            \/ /\ store' = store
               /\ ledgerRet' = [op |-> "addDemand", threw |-> TRUE,
                                value |-> NewDemand(demand), setItem |-> "threw"]
    /\ UNCHANGED << clock, seeded >>

\* AddDemand that persists the new record alone
AddDemandOverwrite(demand) ==
    /\ uuids - seeded < MaxRecords
    /\ uuids' = uuids + 1
    /\ \/ /\ IsArray
          /\ store # Unreadable
          /\ store' = << JsonArray(<< NewDemand(demand) >>) >>
          /\ ledgerRet' = [op |-> "addDemand", threw |-> FALSE,
                           value |-> NewDemand(demand), setItem |-> "stored"]
       \/ /\ store' = store
          /\ ledgerRet' = [op |-> "addDemand", threw |-> TRUE,
                           value |-> NewDemand(demand), setItem |-> "threw"]
    /\ UNCHANGED << clock, seeded >>
    /\ UNCHANGED << appVars, codecVars, routingVars, tabVars, demandVars >>

\* AddDemand that puts the new record in front (unshift for push)
AddDemandInFront(demand) ==
    /\ uuids - seeded < MaxRecords
    /\ uuids' = uuids + 1
    /\ \/ /\ IsArray
          /\ store # Unreadable
          /\ store' = << JsonArray(<< NewDemand(demand) >> \o GetDemands) >>
          /\ ledgerRet' = [op |-> "addDemand", threw |-> FALSE,
                           value |-> NewDemand(demand), setItem |-> "stored"]
       \/ /\ store' = store
          /\ ledgerRet' = [op |-> "addDemand", threw |-> TRUE,
                           value |-> NewDemand(demand), setItem |-> "threw"]
    /\ UNCHANGED << clock, seeded >>
    /\ UNCHANGED << appVars, codecVars, routingVars, tabVars, demandVars >>

\* a call of addDemand(demand) from outside the page
AddDemand(demand) ==
    /\ AddDemandEffect(demand)
    /\ UNCHANGED << appVars, codecVars, routingVars, tabVars, demandVars >>

\* a call of getDemands()
ListDemands ==
    /\ ledgerRet' = [op |-> "getDemands", threw |-> FALSE,
                     value |-> GetDemandsReturn]
    /\ UNCHANGED << store, clock, uuids, seeded >>
    /\ UNCHANGED << appVars, codecVars, routingVars, tabVars, demandVars >>

\* DemandCountForVillage without the test on createdAt
DemandCountForVillageNoWindow(villageId) ==
    LET Wanted(d) == d.villageId = villageId
    IN  Len(SelectSeq(GetDemands, Wanted))

\* the value getDemandCountForVillage(villageId) returns now
DemandCountForVillage(villageId) ==
    LET thirtyDaysAgo == clock - 30
        Wanted(d) == d.villageId = villageId /\ d.createdAt > thirtyDaysAgo
    IN  Len(SelectSeq(GetDemands, Wanted))

\* a call of getDemandCountForVillage(villageId) on day `at`; demands.filter
\* throws when getDemands() is no array
GetDemandCountForVillage(villageId) ==
    /\ ledgerRet' = [op |-> "getDemandCountForVillage", threw |-> ~IsArray,
                     value |-> [villageId |-> villageId, at |-> clock,
                                count |-> DemandCountForVillage(villageId)]]
    /\ UNCHANGED << store, clock, uuids, seeded >>
    /\ UNCHANGED << appVars, codecVars, routingVars, tabVars, demandVars >>

\* AllDemandCounts without the filter on createdAt
AllDemandCountsNoWindow ==
    [ v \in { GetDemands[k].villageId : k \in 1 .. Len(GetDemands) } |->
        LET Wanted(d) == d.villageId = v
        IN  Len(SelectSeq(GetDemands, Wanted)) ]

\* the value getAllDemandCounts() returns now: the records of the last 30
\* days, counted under their villageId
AllDemandCounts ==
    LET thirtyDaysAgo == clock - 30
        Recent(d) == d.createdAt > thirtyDaysAgo
        recent == SelectSeq(GetDemands, Recent)
    IN  [ v \in { recent[k].villageId : k \in 1 .. Len(recent) } |->
            LET Wanted(d) == d.villageId = v
            IN  Len(SelectSeq(recent, Wanted)) ]

\* a call of getAllDemandCounts(); demands.filter throws when getDemands()
\* is no array
GetAllDemandCounts ==
    /\ ledgerRet' = [op |-> "getAllDemandCounts", threw |-> ~IsArray,
                     value |-> AllDemandCounts]
    /\ UNCHANGED << store, clock, uuids, seeded >>
    /\ UNCHANGED << appVars, codecVars, routingVars, tabVars, demandVars >>

\* clearDemands(): removeItem, a throw is caught
ClearDemands ==
    /\ store' = IF store = Unreadable THEN store ELSE NoItem
    /\ ledgerRet' = [op |-> "clearDemands", threw |-> FALSE, value |-> <<>>]
    /\ UNCHANGED << clock, uuids, seeded >>
    /\ UNCHANGED << appVars, codecVars, routingVars, tabVars, demandVars >>

\* what Math.random() decides of one seeded record: daysAgo in 0 .. 29, one
\* of the four cities, one of the two target dates, partySize in 1 .. 7 and
\* the number in the email address
SeedDraws ==
    { [daysAgo |-> 0, originCity |-> "Nicosia", desiredDate |-> "2026-01-24",
       partySize |-> 1, email |-> << "user0@example.com" >>],
      [daysAgo |-> 29, originCity |-> "Paphos", desiredDate |-> "2026-01-25",
       partySize |-> 7, email |-> << "user9999@example.com" >>] }

\* the draws of the records seeded for one village: numRequests of them,
\* numRequests being 2 or more
DrawsOfVillage(villageId) ==
    UNION { { [k \in 1 .. n |-> [villageId |-> villageId, draw |-> ds[k]]] :
              ds \in [1 .. n -> SeedDraws] } : n \in 2 .. MaxRequests }

\* villageIds.forEach: the draws of all seeded records, village after village
RECURSIVE SeedPlans(_)
SeedPlans(villageIds) ==
    IF villageIds = <<>> THEN { <<>> }
    ELSE { head \o rest : head \in DrawsOfVillage(Head(villageIds)),
                          rest \in SeedPlans(Tail(villageIds)) }

\* SeededDemands with crypto.randomUUID() called once, before the loops
SeededDemandsOneId(plan) ==
    [ k \in 1 .. Len(plan) |->
        [ villageId   |-> plan[k].villageId,
          originCity  |-> plan[k].draw.originCity,
          desiredDate |-> plan[k].draw.desiredDate,
          partySize   |-> plan[k].draw.partySize,
          email       |-> plan[k].draw.email,
          id          |-> uuids + 1,
          createdAt   |-> clock - plan[k].draw.daysAgo ] ]

\* the array prepopulateDemands builds from the draws
SeededDemands(plan) ==
    [ k \in 1 .. Len(plan) |->
        [ villageId   |-> plan[k].villageId,
          originCity  |-> plan[k].draw.originCity,
          desiredDate |-> plan[k].draw.desiredDate,
          partySize   |-> plan[k].draw.partySize,
          email       |-> plan[k].draw.email,
          id          |-> uuids + k,
          createdAt   |-> clock - plan[k].draw.daysAgo ] ]

\* PrepopulateStore that skips a store that has data also when force is set
PrepopulateStoreNoForce(villageIds, force) ==
    LET existing == GetDemandsReturn
    IN  IF existing.kind = "null" \/ Len(existing.items) > 0
        THEN UNCHANGED << store, uuids, seeded >>
        ELSE \E plan \in SeedPlans(villageIds) :
                /\ seeded + Len(plan) <= MaxSeeded
                /\ uuids' = uuids + Len(plan)
                /\ seeded' = seeded + Len(plan)
                /\ \/ /\ store # Unreadable
                      /\ store' = << JsonArray(SeededDemands(plan)) >>
                   \/ store' = store

\* what prepopulateDemands(villageIds, force) does to the store.  The whole
\* body is in one try: existing.length throws on null and nothing happens;
\* a store that has data is left alone unless force is set and is removed
\* first when it is; setItem stores the seeded array or throws, and the
\* item then stays as removeItem left it
PrepopulateStore(villageIds, force) ==
    LET existing == GetDemandsReturn
    IN  IF existing.kind = "null" \/ (Len(existing.items) > 0 /\ ~force)
        THEN UNCHANGED << store, uuids, seeded >>
        ELSE \E plan \in SeedPlans(villageIds) :
                /\ seeded + Len(plan) <= MaxSeeded
                /\ uuids' = uuids + Len(plan)
                /\ seeded' = seeded + Len(plan)
                /\ \/ /\ store # Unreadable
                      /\ store' = << JsonArray(SeededDemands(plan)) >>
                   \/ store' = IF force /\ Len(existing.items) > 0
                               THEN NoItem ELSE store

\* a call of prepopulateDemands(villageIds, force); `existing` is the number
\* of records getDemands() gave it
PrepopulateDemands(villageIds, force) ==
    /\ PrepopulateStore(villageIds, force)
    /\ ledgerRet' = [op |-> "prepopulateDemands", threw |-> FALSE,
                     value |-> [force |-> force, existing |-> Len(GetDemands)]]
    /\ UNCHANGED clock
    /\ UNCHANGED << appVars, codecVars, routingVars, tabVars, demandVars >>

\* time passes between two calls
Tick ==
    /\ clock < MaxTicks * TickDays
    /\ clock' = clock + TickDays
    /\ UNCHANGED << store, uuids, seeded, ledgerRet >>
    /\ UNCHANGED << appVars, codecVars, routingVars, tabVars, demandVars >>

NoCall == [op |-> "none", threw |-> FALSE, value |-> <<>>]

\* -------------------------------------------------- demand counts on the page
NoVillageId == "none"

\* what DemandDialog can submit: handlePrepay returns early without a date
\* and without an email that holds '@'
DialogForms == { d \in Submissions : d.email # Undefined }

\* demandCounts with the entry of villageId set to count
WithCount(villageId, count) ==
    [ v \in (DOMAIN demandCounts) \cup {villageId} |->
        IF v = villageId THEN count ELSE demandCounts[v] ]

\* prev.demandCounts[villageId] || 0
CachedCount(villageId) ==
    IF villageId \in DOMAIN demandCounts THEN demandCounts[villageId] ELSE 0

\* AppStart that seeds whatever DEBUG_MODE is
AppStartAlwaysSeeds ==
    /\ page' = "open"
    /\ sheetVillage' = NoVillageId
    /\ sidebarCount' = 0
    /\ dialogCount' = 0
    /\ partySize' = 1
    /\ showConfirmation' = FALSE
    /\ UNCHANGED << clock, debugMode >>
    /\ PrepopulateStore(AllVillageIds, TRUE)
    /\ ledgerRet' = [op |-> "getAllDemandCounts", threw |-> ~IsArray',
                     value |-> AllDemandCounts']
    /\ demandCounts' = IF IsArray' THEN AllDemandCounts' ELSE <<>>
    /\ UNCHANGED << appVars, codecVars, routingVars, tabVars >>

\* the page is loaded: the state of every component is the initial one, and
\* the mount effect of AppProvider seeds the store when DEBUG_MODE is set
\* and then reads the counts of all villages
AppStart ==
    /\ page' = "open"
    /\ sheetVillage' = NoVillageId
    /\ sidebarCount' = 0
    /\ dialogCount' = 0
    /\ partySize' = 1
    /\ showConfirmation' = FALSE
    /\ UNCHANGED << clock, debugMode >>
    /\ IF debugMode
       THEN PrepopulateStore(AllVillageIds, TRUE)
       ELSE UNCHANGED << store, uuids, seeded >>
    /\ ledgerRet' = [op |-> "getAllDemandCounts", threw |-> ~IsArray',
                     value |-> AllDemandCounts']
    /\ demandCounts' = IF IsArray' THEN AllDemandCounts' ELSE <<>>
    /\ UNCHANGED << appVars, codecVars, routingVars, tabVars >>

\* count of useDemand(villageId) after its effect: 0 without a village and
\* when getDemandCountForVillage throws
UseDemandCount(villageId) ==
    IF villageId = NoVillageId \/ ~IsArray THEN 0
    ELSE DemandCountForVillage(villageId)

\* another village, or none, is selected: the effects of the two useDemand
\* hooks and of AppProvider that depend on it run
SelectSheetVillage(villageId) ==
    /\ page = "open"
    /\ villageId # sheetVillage
    /\ sheetVillage' = villageId
    /\ sidebarCount' = UseDemandCount(villageId)
    /\ dialogCount' = UseDemandCount(villageId)
    /\ partySize' = IF villageId = NoVillageId THEN 1 ELSE partySize
    /\ showConfirmation' = IF villageId = NoVillageId THEN FALSE
                           ELSE showConfirmation
    /\ IF villageId = NoVillageId
       THEN UNCHANGED << demandCounts, ledgerRet >>
       ELSE /\ ledgerRet' = [op |-> "getDemandCountForVillage", threw |-> ~IsArray,
                             value |-> [villageId |-> villageId, at |-> clock,
                                        count |-> DemandCountForVillage(villageId)]]
            /\ demandCounts' = IF IsArray
                               THEN WithCount(villageId, DemandCountForVillage(villageId))
                               ELSE demandCounts
    /\ UNCHANGED << store, clock, uuids, seeded, debugMode, page >>
    /\ UNCHANGED << appVars, codecVars, routingVars, tabVars >>

\* UseDemandSubmit that counts the request before addDemand has stored it
UseDemandSubmitCountFirst(form) ==
    /\ page = "open"
    /\ sheetVillage # NoVillageId
    /\ uuids - seeded < MaxSubmits
    /\ AddDemandEffect([form EXCEPT !.villageId = sheetVillage])
    /\ dialogCount' = dialogCount + 1
    /\ UNCHANGED << debugMode, page, sheetVillage, sidebarCount, demandCounts >>
    /\ UNCHANGED formVars
    /\ UNCHANGED << appVars, codecVars, routingVars, tabVars >>

\* handlePrepay of DemandDialog calls submitDemand of its useDemand: the
\* count grows when addDemand returns; when it throws the hook throws the
\* error again and the dialog catches it
UseDemandSubmit(form) ==
    /\ page = "open"
    /\ sheetVillage # NoVillageId
    /\ uuids - seeded < MaxSubmits
    /\ AddDemandEffect([form EXCEPT !.villageId = sheetVillage])
    /\ dialogCount' = IF ledgerRet'.threw THEN dialogCount ELSE dialogCount + 1
    /\ UNCHANGED << debugMode, page, sheetVillage, sidebarCount, demandCounts >>
    /\ UNCHANGED formVars
    /\ UNCHANGED << appVars, codecVars, routingVars, tabVars >>

\* submitDemand of AppProvider: addDemand, and when it has returned the
\* cached count of the village grows by one
SubmitDemand(record) ==
    /\ page = "open"
    /\ uuids - seeded < MaxSubmits
    /\ AddDemandEffect(record)
    /\ demandCounts' = IF ledgerRet'.threw THEN demandCounts
                       ELSE WithCount(record.villageId,
                                      CachedCount(record.villageId) + 1)
    /\ UNCHANGED << debugMode, page, sheetVillage, sidebarCount, dialogCount >>
    /\ UNCHANGED formVars
    /\ UNCHANGED << appVars, codecVars, routingVars, tabVars >>

\* ------------------------------------------- the party size of DemandDialog
\* the result of parseInt when the text does not start with a number
NotANumber == <<>>

DigitValue ==
    ("0" :> 0) @@ ("1" :> 1) @@ ("2" :> 2) @@ ("3" :> 3) @@ ("4" :> 4) @@
    ("5" :> 5) @@ ("6" :> 6) @@ ("7" :> 7) @@ ("8" :> 8) @@ ("9" :> 9)

IsDigit(char) == char \in DOMAIN DigitValue

\* the number the digits of text from position k on add to acc; it ends at
\* the first character that is no digit
RECURSIVE ParseDigits(_, _, _)
ParseDigits(text, k, acc) ==
    IF k > Len(text) \/ ~IsDigit(text[k]) THEN acc
    ELSE ParseDigits(text, k + 1, 10 * acc + DigitValue[text[k]])

\* parseInt(text): an optional sign, then the digits up to the first
\* character that is none; NaN when no digit follows the sign
ParseInt(text) ==
    LET signed == Len(text) > 0 /\ text[1] \in {"-", "+"}
        first  == IF signed THEN 2 ELSE 1
    IN  IF first > Len(text) \/ ~IsDigit(text[first]) THEN NotANumber
        ELSE IF signed /\ text[1] = "-"
             THEN << 0 - ParseDigits(text, first, 0) >>
             ELSE << ParseDigits(text, first, 0) >>

\* x || 1 for the result of parseInt
OrOne(x) == IF x = NotANumber \/ x[1] = 0 THEN 1 ELSE x[1]

\* what the user can leave in the number field
TypedTexts ==
    { << >>, << "0" >>, << "5" >>, << "9" >>, << "1", "2" >>, << "-", "3" >>,
      << "3", ".", "7" >>, << "a", "b" >> }

\* the field's value taken as it was typed, with the lower limit only
ClampPartySizeNoUpper(value) == Max(1, value)

\* Math.min(8, Math.max(1, value))
ClampPartySize(value) == Min(8, Max(1, value))

\* the form of DemandDialog is on the screen
FormShown ==
    /\ page = "open"
    /\ sheetVillage # NoVillageId
    /\ ~showConfirmation

\* the button with the minus sign; it is disabled at 1
PressMinus ==
    /\ FormShown
    /\ ~(partySize <= 1)
    /\ partySize' = Max(1, partySize - 1)
    /\ UNCHANGED << store, clock, uuids, seeded, ledgerRet >>
    /\ UNCHANGED << debugMode, page, sheetVillage, sidebarCount, dialogCount,
                    demandCounts, showConfirmation >>
    /\ UNCHANGED << appVars, codecVars, routingVars, tabVars >>

\* the button with the plus sign; it is disabled at 8
PressPlus ==
    /\ FormShown
    /\ ~(partySize >= 8)
    /\ partySize' = Min(8, partySize + 1)
    /\ UNCHANGED << store, clock, uuids, seeded, ledgerRet >>
    /\ UNCHANGED << debugMode, page, sheetVillage, sidebarCount, dialogCount,
                    demandCounts, showConfirmation >>
    /\ UNCHANGED << appVars, codecVars, routingVars, tabVars >>

\* onChange of the number field
TypePartySize(text) ==
    /\ FormShown
    /\ partySize' = ClampPartySize(OrOne(ParseInt(text)))
    /\ UNCHANGED << store, clock, uuids, seeded, ledgerRet >>
    /\ UNCHANGED << debugMode, page, sheetVillage, sidebarCount, dialogCount,
                    demandCounts, showConfirmation >>
    /\ UNCHANGED << appVars, codecVars, routingVars, tabVars >>

\* handlePrepay with a date and an email that holds '@': the request carries
\* the village of the sheet and the party size of the form; the confirmation
\* is shown when submitDemand of useDemand has returned
HandlePrepay(form) ==
    /\ FormShown
    /\ uuids - seeded < MaxPrepays
    /\ AddDemandEffect([form EXCEPT !.villageId = sheetVillage,
                                    !.partySize = partySize])
    /\ dialogCount' = IF ledgerRet'.threw THEN dialogCount ELSE dialogCount + 1
    /\ showConfirmation' = ~ledgerRet'.threw
    /\ UNCHANGED << debugMode, page, sheetVillage, sidebarCount, demandCounts,
                    partySize >>
    /\ UNCHANGED << appVars, codecVars, routingVars, tabVars >>

\* the dialog is closed, from the form or from the confirmation: the effect
\* on open resets the form
CloseDialog ==
    /\ page = "open"
    /\ sheetVillage # NoVillageId
    /\ partySize' = 1
    /\ showConfirmation' = FALSE
    /\ UNCHANGED << store, clock, uuids, seeded, ledgerRet >>
    /\ UNCHANGED << debugMode, page, sheetVillage, sidebarCount, dialogCount,
                    demandCounts >>
    /\ UNCHANGED << appVars, codecVars, routingVars, tabVars >>

\* no page is loaded
DemandIdle ==
    /\ debugMode = FALSE
    /\ page = "closed"
    /\ sheetVillage = NoVillageId
    /\ sidebarCount = 0
    /\ dialogCount = 0
    /\ demandCounts = <<>>
    /\ partySize = 1
    /\ showConfirmation = FALSE

\* -------------------------------------------- tabs that share the storage
Tabs == {"tab1", "tab2"}

NoWriter == "none"

\* a tab that is not inside addDemand
IdleTab == [pc |-> "idle", demands |-> <<>>, written |-> <<>>]

TabsIdle ==
    /\ tabs = [t \in Tabs |-> IdleTab]
    /\ lastWriter = NoWriter

\* addDemand in tab t up to demands.push(newDemand): the tab holds its own
\* array, parsed from the item it has read, with the new record at its end;
\* push throws when JSON.parse gave no array
TabPush(t, demand) ==
    /\ tabs[t].pc = "idle"
    /\ uuids < MaxRecords
    /\ uuids' = uuids + 1
    /\ IF ~IsArray
       THEN /\ ledgerRet' = [op |-> "addDemand", threw |-> TRUE,
                             value |-> NewDemand(demand), setItem |-> "notCalled"]
            /\ tabs' = tabs
       ELSE /\ ledgerRet' = ledgerRet
            /\ tabs' = [tabs EXCEPT ![t].pc = "pushed",
                                    ![t].demands = Append(GetDemands, NewDemand(demand))]
    /\ UNCHANGED << store, clock, seeded, lastWriter, demandVars >>
    /\ UNCHANGED << appVars, codecVars, routingVars >>

\* TabSetItem that reads the item again and adds its record to what it finds
TabSetItemMerging(t) ==
    /\ tabs[t].pc = "pushed"
    /\ LET newDemand == tabs[t].demands[Len(tabs[t].demands)]
       IN  \/ /\ store # Unreadable
              /\ store' = << JsonArray(Append(GetDemands, newDemand)) >>
              /\ lastWriter' = t
              /\ tabs' = [tabs EXCEPT ![t].pc = "idle", ![t].written = tabs[t].demands]
              /\ ledgerRet' = [op |-> "addDemand", threw |-> FALSE,
                               value |-> newDemand, setItem |-> "stored"]
           \/ /\ UNCHANGED << store, lastWriter >>
              /\ tabs' = [tabs EXCEPT ![t].pc = "idle"]
              /\ ledgerRet' = [op |-> "addDemand", threw |-> TRUE,
                               value |-> newDemand, setItem |-> "threw"]
    /\ UNCHANGED << clock, uuids, seeded, demandVars >>
    /\ UNCHANGED << appVars, codecVars, routingVars >>

\* the rest of addDemand in tab t: setItem replaces the item by the text of
\* the tab's array, or throws and leaves the item as it is
TabSetItem(t) ==
    /\ tabs[t].pc = "pushed"
    /\ LET newDemand == tabs[t].demands[Len(tabs[t].demands)]
       IN  \/ /\ store # Unreadable
              /\ store' = << JsonArray(tabs[t].demands) >>
              /\ lastWriter' = t
              /\ tabs' = [tabs EXCEPT ![t].pc = "idle", ![t].written = tabs[t].demands]
              /\ ledgerRet' = [op |-> "addDemand", threw |-> FALSE,
                               value |-> newDemand, setItem |-> "stored"]
           \/ /\ UNCHANGED << store, lastWriter >>
              /\ tabs' = [tabs EXCEPT ![t].pc = "idle"]
              /\ ledgerRet' = [op |-> "addDemand", threw |-> TRUE,
                               value |-> newDemand, setItem |-> "threw"]
    /\ UNCHANGED << clock, uuids, seeded, demandVars >>
    /\ UNCHANGED << appVars, codecVars, routingVars >>

LedgerIdle ==
    /\ store = NoItem
    /\ clock = 0
    /\ uuids = 0
    /\ seeded = 0
    /\ ledgerRet = NoCall
    /\ DemandIdle
    /\ TabsIdle

\* what `last` records of RouteItineraryCard onSelect: the card that was chosen
Chose(direction, index) ==
    [ op |-> "onSelect", direction |-> direction, index |-> index ]

\* ------------------------------------------------------- routing client
\* what the routing engine may answer to one GET /api/v2/plan
Responses ==
    { [kind |-> "ok", n |-> n] : n \in 0 .. MaxRoutes }
      \cup { [kind |-> k, n |-> 0] :
               k \in {"notFound", "httpError", "networkError", "noItineraries"} }

\* planJourney: the itineraries the call resolves to; every failure is []
PlanJourney(call, resp) ==
    IF resp.kind = "ok"
    THEN [ i \in 1 .. resp.n |-> [from |-> call.from, to |-> call.to, rank |-> i] ]
    ELSE <<>>

\* PlanJourneyRejects with the error of a failed request thrown again
PlanJourneyRejectsOnFailure(resp) == resp.kind \in {"httpError", "networkError"}

\* whether the promise of planJourney rejects on this answer: the catch of
\* planJourney returns [] for every error, so it never does
PlanJourneyRejects(resp) == FALSE

\* err.message of the error a rejected planJourney promise carries
PlanJourneyMessage(resp) ==
    IF resp.kind = "httpError" THEN "Motis API error: 500" ELSE "Failed to fetch"

\* the values one planJourney call may resolve to
PlanJourneyResults(call) == { PlanJourney(call, resp) : resp \in Responses }

\* --------------------------------------------------------- orchestrator
\* the body of fetchRoutes up to the await: loading on, two planJourney calls
FetchRoutes(origin, village) ==
    \E now \in Times :
        /\ routesLoading' = TRUE
        /\ routesError' = NoError
        /\ calls' = << [from |-> origin, to |-> VillageCoord(village), time |-> now],
                       [from |-> VillageCoord(village), to |-> origin, time |-> now] >>
        /\ fetches' = fetches (+) One(
              [ village     |-> village,
                origin      |-> origin,
                callTo      |-> [from |-> origin, to |-> VillageCoord(village)],
                callFrom    |-> [from |-> VillageCoord(village), to |-> origin],
                toSettled   |-> FALSE,
                fromSettled |-> FALSE ])
        /\ issued' = issued + 1
        /\ UNCHANGED << routesToVillage, routesFromVillage, routesSource >>

\* AutoFetchRoutes without the origin checks of its two early returns
AutoFetchRoutesNoOriginCheck(village, ul, city) ==
    IF village = NoVillage
    THEN /\ routesToVillage' = <<>>
         /\ routesFromVillage' = <<>>
         /\ routesSource' = NoSource
         /\ NoCalls
         /\ UNCHANGED << routesLoading, routesError, fetches, issued >>
    ELSE FetchRoutes(OriginOf(ul, city), village)

\* the auto-fetch effect, run with the dependency values of the new render
AutoFetchRoutes(village, ul, city) ==
    IF village = NoVillage \/ (ul = NoCoord /\ city = NoCity)
    THEN /\ routesToVillage' = <<>>
         /\ routesFromVillage' = <<>>
         /\ routesSource' = NoSource
         /\ NoCalls
         /\ UNCHANGED << routesLoading, routesError, fetches, issued >>
    ELSE IF OriginOf(ul, city) = NoCoord
         THEN NoCalls /\ UNCHANGED routeVars
         ELSE FetchRoutes(OriginOf(ul, city), village)

\* the effect issues a fetch for these dependency values
WouldFetch(village, ul, city) ==
    village # NoVillage /\ OriginOf(ul, city) # NoCoord

\* the model follows a session up to its MaxFetches-th invocation
InflightRoom(village, ul, city) ==
    WouldFetch(village, ul, city) => issued < MaxFetches

\* navigator.geolocation.getCurrentPosition success callback
GeoSuccess(pos) ==
    /\ locationLoading
    /\ InflightRoom(selectedVillage, pos, selectedCity)
    /\ userLocation' = pos
    /\ locationLoading' = FALSE
    /\ locationError' = NoError
    /\ AutoFetchRoutes(selectedVillage, pos, selectedCity)
    /\ last' = Snapshot("geoSuccess", selectedVillage, OriginOf(pos, selectedCity))
    /\ UNCHANGED << selectedCity, selectedVillage, selectedRoute >>
    /\ UNCHANGED libVars

\* GeoError that falls back to the coordinate of Nicosia as device location
GeoErrorFallsBack(msg) ==
    /\ locationLoading
    /\ locationLoading' = FALSE
    /\ locationError' = msg
    /\ userLocation' = CITY_COORDS["Nicosia"]
    /\ last' = Other
    /\ NoCalls
    /\ UNCHANGED << selectedCity, selectedVillage, selectedRoute >>
    /\ UNCHANGED routeVars
    /\ UNCHANGED libVars

\* navigator.geolocation.getCurrentPosition error callback
GeoError(msg) ==
    /\ locationLoading
    /\ locationLoading' = FALSE
    /\ locationError' = msg
    /\ last' = Other
    /\ NoCalls
    /\ UNCHANGED << userLocation, selectedCity, selectedVillage, selectedRoute >>
    /\ UNCHANGED routeVars
    /\ UNCHANGED libVars

\* SetSelectedVillage without `selectedRoute: null`
SetSelectedVillageKeepRoute(village) ==
    /\ village = NoVillage => selectedVillage # NoVillage
    /\ village # selectedVillage => InflightRoom(village, userLocation, selectedCity)
    /\ selectedVillage' = village
    /\ IF village # selectedVillage
       THEN AutoFetchRoutes(village, userLocation, selectedCity)
       ELSE NoCalls /\ UNCHANGED routeVars
    /\ last' = Snapshot("setSelectedVillage", village, Origin)
    /\ UNCHANGED locVars
    /\ UNCHANGED libVars
    /\ UNCHANGED << selectedCity, selectedRoute >>

\* SetSelectedVillage that forgets the device location when the selection
\* is cleared
SetSelectedVillageResetsLocation(village) ==
    /\ village = NoVillage => selectedVillage # NoVillage
    /\ village # selectedVillage => InflightRoom(village, userLocation, selectedCity)
    /\ selectedVillage' = village
    /\ selectedRoute' = NoRoute
    /\ IF village # selectedVillage
       THEN AutoFetchRoutes(village, userLocation, selectedCity)
       ELSE NoCalls /\ UNCHANGED routeVars
    /\ last' = Snapshot("setSelectedVillage", village, Origin)
    /\ userLocation' = IF village = NoVillage THEN NoCoord ELSE userLocation
    /\ UNCHANGED << locationLoading, locationError >>
    /\ UNCHANGED libVars
    /\ UNCHANGED selectedCity

\* setSelectedVillage(village), village possibly null; the effect reruns
\* only when the selectedVillage dependency changed
SetSelectedVillage(village) ==
    /\ village = NoVillage => selectedVillage # NoVillage
    /\ village # selectedVillage => InflightRoom(village, userLocation, selectedCity)
    /\ selectedVillage' = village
    /\ selectedRoute' = NoRoute
    /\ IF village # selectedVillage
       THEN AutoFetchRoutes(village, userLocation, selectedCity)
       ELSE NoCalls /\ UNCHANGED routeVars
    /\ last' = Snapshot("setSelectedVillage", village, Origin)
    /\ UNCHANGED locVars
    /\ UNCHANGED libVars
    /\ UNCHANGED selectedCity

\* SetSelectedCity with state.selectedCity missing from the effect's dependencies
SetSelectedCityNoEffect(city) ==
    /\ selectedVillage # NoVillage
    /\ userLocation = NoCoord
    /\ selectedCity' = city
    /\ NoCalls
    /\ last' = Snapshot("setSelectedCity", selectedVillage, OriginOf(userLocation, city))
    /\ UNCHANGED locVars
    /\ UNCHANGED libVars
    /\ UNCHANGED routeVars
    /\ UNCHANGED << selectedVillage, selectedRoute >>

\* setSelectedCity(city) from the sidebar's city selector, which is rendered
\* while a village is selected and there is no device location
SetSelectedCity(city) ==
    /\ selectedVillage # NoVillage
    /\ userLocation = NoCoord
    /\ city # selectedCity => InflightRoom(selectedVillage, userLocation, city)
    /\ selectedCity' = city
    /\ IF city # selectedCity
       THEN AutoFetchRoutes(selectedVillage, userLocation, city)
       ELSE NoCalls /\ UNCHANGED routeVars
    /\ last' = Snapshot("setSelectedCity", selectedVillage, OriginOf(userLocation, city))
    /\ UNCHANGED locVars
    /\ UNCHANGED libVars
    /\ UNCHANGED << selectedVillage, selectedRoute >>

RouteList(direction) ==
    IF direction = "to" THEN routesToVillage ELSE routesFromVillage

\* a RouteItineraryCard for (direction, index) is rendered
CardShown(direction, index) ==
    /\ selectedVillage # NoVillage
    /\ ~routesLoading
    /\ index \in 0 .. (Len(RouteList(direction)) - 1)

\* OnSelect without the branch that deselects the selected card
OnSelectNoToggle(direction, index) ==
    /\ CardShown(direction, index)
    /\ selectedRoute' = [direction |-> direction, index |-> index]
    /\ last' = Chose(direction, index)
    /\ NoCalls
    /\ UNCHANGED locVars
    /\ UNCHANGED libVars
    /\ UNCHANGED routeVars
    /\ UNCHANGED << selectedCity, selectedVillage >>

\* RouteItineraryCard onSelect
OnSelect(direction, index) ==
    /\ CardShown(direction, index)
    /\ selectedRoute' =
          IF selectedRoute.direction = direction /\ selectedRoute.index = index
          THEN NoRoute
          ELSE [direction |-> direction, index |-> index]
    /\ last' = Chose(direction, index)
    /\ NoCalls
    /\ UNCHANGED locVars
    /\ UNCHANGED libVars
    /\ UNCHANGED routeVars
    /\ UNCHANGED << selectedCity, selectedVillage >>

\* RouteItineraryCard onShowOnMap
OnShowOnMap(direction, index) ==
    /\ CardShown(direction, index)
    /\ selectedRoute' = [direction |-> direction, index |-> index]
    /\ last' = Other
    /\ NoCalls
    /\ UNCHANGED locVars
    /\ UNCHANGED libVars
    /\ UNCHANGED routeVars
    /\ UNCHANGED << selectedCity, selectedVillage >>

\* ApplyResults with the destructured pair stored the wrong way round
ApplyResultsSwapped(f, routesTo, routesFrom) ==
    /\ routesToVillage' = routesFrom
    /\ routesFromVillage' = routesTo
    /\ routesLoading' = FALSE
    /\ routesSource' = [village |-> f.village, origin |-> f.origin]
    /\ fetches' = fetches (-) One(f)
    /\ UNCHANGED << routesError, issued >>

\* ApplyResults without `routesLoading: false`
ApplyResultsKeepsLoading(f, routesTo, routesFrom) ==
    /\ routesToVillage' = routesTo
    /\ routesFromVillage' = routesFrom
    /\ routesSource' = [village |-> f.village, origin |-> f.origin]
    /\ fetches' = fetches (-) One(f)
    /\ UNCHANGED << routesLoading, routesError, issued >>

\* the continuation of fetchRoutes after Promise.all resolved
ApplyResults(f, routesTo, routesFrom) ==
    /\ routesToVillage' = routesTo
    /\ routesFromVillage' = routesFrom
    /\ routesLoading' = FALSE
    /\ routesSource' = [village |-> f.village, origin |-> f.origin]
    /\ fetches' = fetches (-) One(f)
    /\ UNCHANGED << routesError, issued >>

\* the catch branch of fetchRoutes: Promise.all rejects with the first
\* rejection, whatever the other call does later
CatchResults(f, message) ==
    /\ routesToVillage' = <<>>
    /\ routesFromVillage' = <<>>
    /\ routesLoading' = FALSE
    /\ routesError' = message
    /\ routesSource' = NoSource
    /\ fetches' = fetches (-) One(f)
    /\ UNCHANGED issued

\* Settle with each planJourney result stored as soon as it arrives
SettleEager(f, direction) ==
    IF direction = "to"
    THEN /\ ~f.toSettled
         /\ \E result \in PlanJourneyResults(f.callTo) : routesToVillage' = result
         /\ IF f.fromSettled
            THEN /\ routesLoading' = FALSE
                 /\ routesSource' = [village |-> f.village, origin |-> f.origin]
                 /\ fetches' = fetches (-) One(f)
                 /\ UNCHANGED << routesFromVillage, routesError, issued >>
            ELSE /\ fetches' = (fetches (-) One(f)) (+) One([f EXCEPT !.toSettled = TRUE])
                 /\ UNCHANGED << routesFromVillage, routesLoading,
                                 routesError, issued, routesSource >>
    ELSE /\ ~f.fromSettled
         /\ \E result \in PlanJourneyResults(f.callFrom) : routesFromVillage' = result
         /\ IF f.toSettled
            THEN /\ routesLoading' = FALSE
                 /\ routesSource' = [village |-> f.village, origin |-> f.origin]
                 /\ fetches' = fetches (-) One(f)
                 /\ UNCHANGED << routesToVillage, routesError, issued >>
            ELSE /\ fetches' = (fetches (-) One(f)) (+) One([f EXCEPT !.fromSettled = TRUE])
                 /\ UNCHANGED << routesToVillage, routesLoading,
                                 routesError, issued, routesSource >>

\* one planJourney promise of invocation f settles.  Promise.all resolves
\* with the second of the two, and only then are the two resolved values
\* read: [routesTo, routesFrom] are what the two calls resolved to
Settle(f, direction) ==
    LET settled == IF direction = "to" THEN f.toSettled ELSE f.fromSettled
        other   == IF direction = "to" THEN f.fromSettled ELSE f.toSettled
    IN  /\ ~settled
        /\ \/ \E resp \in Responses :
                 /\ PlanJourneyRejects(resp)
                 /\ CatchResults(f, PlanJourneyMessage(resp))
           \/ IF other
              THEN \E routesTo \in PlanJourneyResults(f.callTo),
                      routesFrom \in PlanJourneyResults(f.callFrom) :
                        ApplyResults(f, routesTo, routesFrom)
              ELSE /\ fetches' = (fetches (-) One(f)) (+)
                         One(IF direction = "to" THEN [f EXCEPT !.toSettled = TRUE]
                                                 ELSE [f EXCEPT !.fromSettled = TRUE])
                   /\ UNCHANGED << routesToVillage, routesFromVillage, routesLoading,
                                   routesError, issued, routesSource >>

SettleTo(f) ==
    /\ BagIn(f, fetches)
    /\ Settle(f, "to")
    /\ last' = Other
    /\ NoCalls
    /\ UNCHANGED locVars
    /\ UNCHANGED libVars
    /\ UNCHANGED << selectedCity, selectedVillage, selectedRoute >>

SettleFrom(f) ==
    /\ BagIn(f, fetches)
    /\ Settle(f, "from")
    /\ last' = Other
    /\ NoCalls
    /\ UNCHANGED locVars
    /\ UNCHANGED libVars
    /\ UNCHANGED << selectedCity, selectedVillage, selectedRoute >>

\* ---------------------------------------------------------- specification
\* the state after the first render and its mount effects: geolocation is
\* either requested (pending) or not supported by the browser
AppInit ==
    /\ userLocation = NoCoord
    /\ \/ locationLoading = TRUE /\ locationError = NoError
       \/ locationLoading = FALSE /\ locationError = "Geolocation not supported"
    /\ selectedCity = NoCity
    /\ selectedVillage = NoVillage
    /\ routesToVillage = <<>>
    /\ routesFromVillage = <<>>
    /\ routesLoading = FALSE
    /\ routesError = NoError
    /\ selectedRoute = NoRoute
    /\ fetches = EmptyBag
    /\ issued = 0
    /\ routesSource = NoSource
    /\ calls = <<>>
    /\ last = Other

Init ==
    /\ AppInit
    /\ CodecIdle
    /\ RoutingIdle
    /\ LedgerIdle

Next ==
    \/ \E pos \in DevicePositions : GeoSuccess(pos)
    \/ \E msg \in GeoErrors : GeoError(msg)
    \/ \E village \in Villages \cup {NoVillage} : SetSelectedVillage(village)
    \/ \E city \in CityChoices : SetSelectedCity(city)
    \/ \E d \in Directions, i \in 0 .. (MaxRoutes - 1) : OnSelect(d, i)
    \/ \E d \in Directions, i \in 0 .. (MaxRoutes - 1) : OnShowOnMap(d, i)
    \/ \E f \in BagToSet(fetches) : SettleTo(f)
    \/ \E f \in BagToSet(fetches) : SettleFrom(f)

Spec == Init /\ [][Next]_vars

\* every planJourney call that was issued settles: fetch resolves or rejects
\* in the end and planJourney turns either into a resolved promise
CallsSettle ==
    /\ WF_vars(\E f \in BagToSet(fetches) : SettleTo(f))
    /\ WF_vars(\E f \in BagToSet(fetches) : SettleFrom(f))

FairSpec == Spec /\ CallsSettle

\* -------------------------------------------------- codec specification
\* the reference encoder of the polyline format for one signed value: zig-zag
\* sign, 5-bit groups from the low end, continuation bit 0x20, offset 63
RECURSIVE EncodeUnsigned(_)
EncodeUnsigned(v) ==
    IF v >= 32 THEN << 32 + (v % 32) + 63 >> \o EncodeUnsigned(v \div 32)
    ELSE << v + 63 >>

EncodeSigned(d) == EncodeUnsigned(IF d < 0 THEN 0 - (2 * d) - 1 ELSE 2 * d)

\* the well-formed string for a sequence of <<latitude, longitude>> deltas
RECURSIVE Encode(_)
Encode(deltas) ==
    IF deltas = <<>> THEN <<>>
    ELSE EncodeSigned(Head(deltas)[1]) \o EncodeSigned(Head(deltas)[2])
           \o Encode(Tail(deltas))

\* the k-th point of a well-formed string: the sum of its first k deltas
RECURSIVE RunningSums(_)
RunningSums(deltas) ==
    IF deltas = <<>> THEN <<>>
    ELSE LET before == RunningSums(SubSeq(deltas, 1, Len(deltas) - 1))
             prev   == IF before = <<>> THEN <<0, 0>> ELSE before[Len(before)]
             d      == deltas[Len(deltas)]
         IN  Append(before, <<prev[1] + d[1], prev[2] + d[2]>>)

Deltas == {0 - 1, 0, 16}

RECURSIVE DeltaSeqsOfLen(_)
DeltaSeqsOfLen(n) ==
    IF n = 0 THEN { <<>> }
    ELSE { Append(s, <<a, b>>) : s \in DeltaSeqsOfLen(n - 1), a \in Deltas, b \in Deltas }

DeltaSeqs == UNION { DeltaSeqsOfLen(n) : n \in 0 .. MaxPoints }

\* the strings decodePolyline is called with
EncodedInputs ==
    UNION { StringsOfLen(n) : n \in 0 .. MaxLen }
      \cup { Encode(ds) : ds \in DeltaSeqs }
      \cup { ReferenceString, LongGroup }

CodecInit ==
    /\ AppInit
    /\ RoutingIdle
    /\ LedgerIdle
    /\ decoder \in { DecoderStart(encoded) : encoded \in EncodedInputs }

\* decodePolyline runs one step
Decode ==
    /\ decoder.pc \in {"while", "lat", "lng"}
    /\ decoder' = DecodeStep(decoder)
    /\ UNCHANGED << appVars, routingVars, ledgerVars >>

CodecNext == Decode

CodecSpec == CodecInit /\ [][CodecNext]_vars

\* ---------------------------------------------------------------- claims
Tagged(list, call) ==
    \A k \in 1 .. Len(list) : list[k].from = call.from /\ list[k].to = call.to

\* invocation f of fetchRoutes completes in this step
Completes(f) ==
    /\ BagIn(f, fetches)
    /\ fetches' = fetches (-) One(f)

\* C1: when a village is selected after another one whose fetch pair was
\* still outstanding, then once every fetch pair has settled the route lists
\* are those of the selected village, never those of the earlier one.
StaleResultDiscard ==
    ( /\ fetches = EmptyBag
      /\ selectedVillage # NoVillage
      /\ routesSource # NoSource
      /\ routesSource.origin = Origin )
    => /\ routesSource.village = selectedVillage
       /\ \A k \in 1 .. Len(routesToVillage) :
              routesToVillage[k].to = VillageCoord(selectedVillage)
       /\ \A k \in 1 .. Len(routesFromVillage) :
              routesFromVillage[k].from = VillageCoord(selectedVillage)

\* C2: in every reachable state a selectedRoute that is not null has an index
\* that is valid for the route list of its direction.
SelectedRouteIndexValid ==
    selectedRoute # NoRoute =>
        /\ selectedRoute.direction \in Directions
        /\ selectedRoute.index >= 0
        /\ selectedRoute.index < Len(RouteList(selectedRoute.direction))

\* C3: a fetch pair that completes writes the route lists only if the
\* (village, origin) it was issued for is still the selected village and the
\* current origin; otherwise the route lists are left unchanged.
SupersededResultDropped ==
    [][ \A f \in BagToSet(fetches) :
          ( /\ Completes(f)
            /\ ~(f.village = selectedVillage /\ f.origin = Origin) )
          => UNCHANGED << routesToVillage, routesFromVillage >> ]_vars

\* C4: while no village is selected both route lists are empty and
\* selectedRoute is null, also after a fetch that was outstanding when the
\* selection was cleared has settled.
ClearedSelectionStaysEmpty ==
    selectedVillage = NoVillage =>
        /\ routesToVillage = <<>>
        /\ routesFromVillage = <<>>
        /\ selectedRoute = NoRoute

\* C5: a step that changes the origin while a village is selected leaves
\* selectedRoute null.
OriginChangeClearsSelectedRoute ==
    [][ ( /\ selectedVillage # NoVillage
          /\ selectedVillage' = selectedVillage
          /\ Origin' # Origin )
        => selectedRoute' = NoRoute ]_vars

\* C6: every step that changes selectedVillage (to another village or to
\* null) leaves selectedRoute null, whatever it was before.
VillageChangeClearsSelectedRoute ==
    [][ selectedVillage' # selectedVillage => selectedRoute' = NoRoute ]_vars

\* a village other than the previous selection was selected (or the selection
\* cleared) while an itinerary was selected
VillageChangedWithRouteSelected ==
    /\ last.op = "setSelectedVillage"
    /\ last.hadRoute
    /\ last.newVillage
    /\ selectedRoute = NoRoute

\* C7: setSelectedVillage with a village while the origin is unknown makes no
\* planJourney call, starts no fetch, leaves routesLoading false and leaves
\* both route lists empty.
SelectWithoutOriginIssuesNoFetch ==
    [][ ( /\ Origin = NoCoord
          /\ last'.op = "setSelectedVillage"
          /\ selectedVillage' # NoVillage )
        => /\ calls' = <<>>
           /\ fetches' = EmptyBag
           /\ issued' = issued
           /\ routesLoading' = FALSE
           /\ routesToVillage' = <<>>
           /\ routesFromVillage' = <<>> ]_vars

\* a village has just been selected and there is neither a device location
\* nor a chosen city
VillageSelectedWithoutOrigin ==
    /\ last.op = "setSelectedVillage"
    /\ last.newVillage
    /\ selectedVillage # NoVillage
    /\ userLocation = NoCoord
    /\ selectedCity = NoCity

\* C8: a step that changes the origin (from unknown or from another value)
\* while a village stays selected sets routesLoading and starts a fetch pair
\* for that village and the new origin.
OriginChangeRefetches ==
    [][ ( /\ selectedVillage # NoVillage
          /\ selectedVillage' = selectedVillage
          /\ Origin' # Origin )
        => /\ routesLoading' = TRUE
           /\ Len(calls') = 2
           /\ calls'[1].from = Origin' /\ calls'[1].to = VillageCoord(selectedVillage)
           /\ calls'[2].from = VillageCoord(selectedVillage) /\ calls'[2].to = Origin'
           /\ \E f \in BagToSet(fetches') :
                  /\ fetches' = fetches (+) One(f)
                  /\ f.village = selectedVillage
                  /\ f.origin = Origin'
                  /\ ~f.toSettled /\ ~f.fromSettled ]_vars

\* the device location arrived after a city had been chosen for the selected
\* village, and a fetch for the device location is outstanding
OriginChangedWhileVillageSelected ==
    /\ last.op = "geoSuccess"
    /\ last.village
    /\ last.origin
    /\ last.newOrigin
    /\ routesLoading
    /\ \E f \in BagToSet(fetches) : f.origin = userLocation

\* C9 as stated: every setSelectedVillage with a village while the origin is
\* known sets routesLoading and makes two planJourney calls.
EverySelectionFetches ==
    [][ ( /\ Origin # NoCoord
          /\ last'.op = "setSelectedVillage"
          /\ selectedVillage' # NoVillage )
        => /\ routesLoading' = TRUE
           /\ Len(calls') = 2 ]_vars

\* C9 amended: selecting a village other than the selected one while the
\* origin is known sets routesLoading and makes exactly two planJourney calls
\* with one departure time, plan(origin, village) and plan(village, origin);
\* when the pair completes the result of the first becomes routesToVillage
\* and the result of the second routesFromVillage.
NewSelectionFetchesBothDirections ==
    [][ /\ ( /\ Origin # NoCoord
             /\ selectedVillage' # NoVillage
             /\ selectedVillage' # selectedVillage )
           => /\ routesLoading' = TRUE
              /\ Len(calls') = 2
              /\ calls'[1].from = Origin /\ calls'[1].to = VillageCoord(selectedVillage')
              /\ calls'[2].from = VillageCoord(selectedVillage') /\ calls'[2].to = Origin
              /\ calls'[1].time = calls'[2].time
              /\ issued' = issued + 1
              /\ \E f \in BagToSet(fetches') :
                     /\ fetches' = fetches (+) One(f)
                     /\ f.callTo = [from |-> calls'[1].from, to |-> calls'[1].to]
                     /\ f.callFrom = [from |-> calls'[2].from, to |-> calls'[2].to]
                     /\ ~f.toSettled /\ ~f.fromSettled
        /\ \A f \in BagToSet(fetches) :
             Completes(f)
             => /\ Tagged(routesToVillage', f.callTo)
                /\ Tagged(routesFromVillage', f.callFrom)
      ]_vars

\* another village was selected with the origin known: two calls are out
NewVillageSelectedWithOrigin ==
    /\ last.op = "setSelectedVillage"
    /\ last.newVillage
    /\ last.origin
    /\ selectedVillage # NoVillage
    /\ Len(calls) = 2
    /\ routesLoading

\* C10: a step in which only one of the two calls of a fetch pair settles
\* changes neither route list nor routesLoading; the step in which the pair
\* completes replaces both lists by the two results of that pair, whichever
\* call settled first; so the two lists always come from one request.
ListsFromSameRequest ==
    \A i \in 1 .. Len(routesToVillage), j \in 1 .. Len(routesFromVillage) :
        /\ routesToVillage[i].from = routesFromVillage[j].to
        /\ routesToVillage[i].to = routesFromVillage[j].from

JointCompletionOnly ==
    [][ /\ (BagCardinality(fetches') = BagCardinality(fetches) /\ fetches' # fetches)
           => UNCHANGED << routesToVillage, routesFromVillage, routesLoading >>
        /\ \A f \in BagToSet(fetches) :
             Completes(f)
             => /\ Tagged(routesToVillage', f.callTo)
                /\ Tagged(routesFromVillage', f.callFrom)
                /\ routesLoading' = FALSE
        /\ ListsFromSameRequest'
      ]_vars

\* the return call of the selected village's pair has settled, the forward
\* call has not, and the return list on display is still empty
ReturnSettledFirst ==
    \E f \in BagToSet(fetches) :
        /\ f.fromSettled
        /\ ~f.toSettled
        /\ f.village = selectedVillage
        /\ routesFromVillage = <<>>
        /\ routesLoading

\* C11: choosing the card (d, i) sets selectedRoute to exactly (d, i) when
\* selectedRoute is null or another pair, and to null when it is (d, i); so
\* choosing the same card twice in a row starting from null ends at null, and
\* selectedRoute is never more than one pair.
SelectedRouteToggles ==
    [][ /\ last'.op = "onSelect"
           => LET chosen == [direction |-> last'.direction, index |-> last'.index]
              IN  /\ selectedRoute = chosen => selectedRoute' = NoRoute
                  /\ selectedRoute # chosen => selectedRoute' = chosen
                  /\ ( /\ last.op = "onSelect"
                       /\ last = last'
                       /\ selectedRoute = chosen )
                     => selectedRoute' = NoRoute
        /\ selectedRoute' = NoRoute \/
              ( /\ selectedRoute'.direction \in Directions
                /\ selectedRoute'.index \in 0 .. (MaxRoutes - 1) )
      ]_vars

\* the selected card has just been chosen a second time and is deselected
SameCardChosenTwice ==
    /\ last.op = "onSelect"
    /\ selectedRoute = NoRoute
    /\ Len(RouteList(last.direction)) > last.index

\* ------------------------------------------ routing client specification
RoutingInit ==
    /\ AppInit
    /\ CodecIdle
    /\ LedgerIdle
    /\ response \in RoutingResponses
    /\ planned = NotPlanned

\* planJourney(from, to, departureTime) runs against the response
PlanJourneyCall ==
    /\ planned = NotPlanned
    /\ planned' = PlanJourneySettles(response)
    /\ UNCHANGED << appVars, codecVars, ledgerVars, response >>

RoutingNext == PlanJourneyCall

RoutingSpec == RoutingInit /\ [][RoutingNext]_vars

\* ------------------------------------------------- ledger specification
\* what a browser may hold under STORAGE_KEY before the first call: nothing,
\* a text that is no array of records, or no storage it lets the page use
InitialStores ==
    { NoItem, << JsonObject >>, << JsonNull >>, << NotJson >>, Unreadable }

LedgerInit ==
    /\ AppInit
    /\ CodecIdle
    /\ RoutingIdle
    /\ store \in InitialStores
    /\ clock = 0
    /\ uuids = 0
    /\ seeded = 0
    /\ ledgerRet = NoCall
    /\ DemandIdle
    /\ TabsIdle

LedgerNext ==
    \/ \E demand \in Submissions : AddDemand(demand)
    \/ ListDemands
    \/ \E villageId \in VillageIds : GetDemandCountForVillage(villageId)
    \/ GetAllDemandCounts
    \/ Tick

LedgerSpec == LedgerInit /\ [][LedgerNext]_vars

\* ------------------------------------------------- seeding specification
\* a record an earlier session has stored
Genuine(k, villageId) ==
    [ villageId |-> villageId, originCity |-> "Larnaca",
      desiredDate |-> "2026-01-24", partySize |-> 2, email |-> Undefined,
      id |-> k, createdAt |-> 0 ]

\* the stores of LedgerInit, and arrays of none, one and two records
SeedStores ==
    InitialStores
      \cup { << JsonArray(<<>>) >>,
             << JsonArray(<< Genuine(1, "x") >>) >>,
             << JsonArray(<< Genuine(1, "y"), Genuine(2, "x") >>) >> }

SeedInit ==
    /\ AppInit
    /\ CodecIdle
    /\ RoutingIdle
    /\ store \in SeedStores
    /\ clock = 0
    /\ uuids = Len(GetDemands)
    /\ seeded = 0
    /\ ledgerRet = NoCall
    /\ DemandIdle
    /\ TabsIdle

SeedNext ==
    \/ \E villageIds \in { << "x" >>, AllVillageIds }, force \in BOOLEAN :
          PrepopulateDemands(villageIds, force)
    \/ \E demand \in Submissions : AddDemand(demand)
    \/ ClearDemands
    \/ ListDemands

SeedSpec == SeedInit /\ [][SeedNext]_vars

\* ------------------------------------------------- session specification
\* a browser without a demand item; the build has DEBUG_MODE set or not
SessionInit ==
    /\ AppInit
    /\ CodecIdle
    /\ RoutingIdle
    /\ store = NoItem
    /\ clock = 0
    /\ uuids = 0
    /\ seeded = 0
    /\ ledgerRet = NoCall
    /\ debugMode \in BOOLEAN
    /\ page = "closed"
    /\ sheetVillage = NoVillageId
    /\ sidebarCount = 0
    /\ dialogCount = 0
    /\ demandCounts = <<>>
    /\ partySize = 1
    /\ showConfirmation = FALSE
    /\ TabsIdle

SessionNext ==
    \/ AppStart
    \/ \E villageId \in VillageIds \cup {NoVillageId} : SelectSheetVillage(villageId)
    \/ \E form \in DialogForms : UseDemandSubmit(form)
    \/ \E record \in Submissions : SubmitDemand(record)

SessionSpec == SessionInit /\ [][SessionNext]_vars

\* ---------------------------------------------- the dialog, from the start
\* the page is loaded once
FirstStart ==
    /\ page = "closed"
    /\ AppStart

\* the villages whose sheet is opened
DialogVillages == {"x"}

DialogNext ==
    \/ FirstStart
    \/ \E villageId \in DialogVillages \cup {NoVillageId} : SelectSheetVillage(villageId)
    \/ PressMinus
    \/ PressPlus
    \/ \E text \in TypedTexts : TypePartySize(text)
    \/ \E form \in DialogForms : HandlePrepay(form)
    \/ CloseDialog

DialogSpec == SessionInit /\ [][DialogNext]_vars

\* -------------------------------------------- two tabs on the same storage
TabsNext ==
    \/ \E t \in Tabs, demand \in Submissions : TabPush(t, demand)
    \/ \E t \in Tabs : TabSetItem(t)

TabsSpec == LedgerInit /\ [][TabsNext]_vars

\* the k-th raw itinerary of the response
RawOf(k) == response.itineraries[1][k]

\* planJourney resolved to the mapping of the response's itineraries
Mapped ==
    /\ planned.settled = "resolved"
    /\ response # NoResponse
    /\ response.itineraries # Undefined
    /\ Len(planned.value) = Len(response.itineraries[1])

\* the response is a 404, another status that is no success, a network
\* failure, a body that is not JSON of the expected shape, or a success body
\* without itineraries
FailureResponse ==
    \/ response.kind = "networkError"
    \/ response.status # 200
    \/ response.body \in {"notJson", "null", "itinerariesNoArray"}
    \/ response.body = "object" /\ response.itineraries = Undefined

\* C12: planJourney never rejects: whatever the engine answers the promise
\* resolves, and for a 404, any other status that is no success, a network
\* failure, a body that is not JSON of the expected shape and a success body
\* without itineraries it resolves to the empty sequence.
PlanJourneyNeverRejects ==
    planned # NotPlanned =>
        /\ planned.settled = "resolved"
        /\ FailureResponse => planned.value = <<>>

\* planJourney has run against a 500 response
ServerErrorPlanned ==
    /\ planned # NotPlanned
    /\ response.kind = "status"
    /\ response.status = 500
    /\ planned.value = <<>>

\* C13: a mapped itinerary has the transfers of its raw itinerary when that
\* supplies one, 0 included, and max(0, number of TRANSIT legs - 1) when it
\* supplies none.
TransfersSuppliedOrDerived ==
    Mapped =>
        \A k \in 1 .. Len(planned.value) :
            planned.value[k].transfers =
                IF RawOf(k).transfers # Undefined
                THEN RawOf(k).transfers[1]
                ELSE Max(0, Cardinality({ j \in 1 .. Len(planned.value[k].legs) :
                              planned.value[k].legs[j].mode = "TRANSIT" }) - 1)

\* C14: every itinerary planJourney returns has transfers >= 0 and
\* duration >= 0, also for raw itineraries with negative or missing numbers.
AggregatesNonNegative ==
    planned.settled = "resolved" =>
        \A k \in 1 .. Len(planned.value) :
            /\ planned.value[k].transfers >= 0
            /\ planned.value[k].duration >= 0

\* C15: the mapping keeps the number and the order of the legs; a leg without
\* legGeometry.points has the empty polyline and a leg with an encoded
\* geometry the decoded coordinate sequence; so one WALK leg without geometry
\* followed by one TRANSIT leg with a geometry of two points maps to 2 legs,
\* the first with the empty polyline, the second with at least 2 points, and
\* transfers 0.
LegsMappedInOrder ==
    Mapped =>
        \A k \in 1 .. Len(planned.value) :
            LET legs == planned.value[k].legs
                raw  == RawOf(k).legs[1]
            IN  /\ Len(legs) = Len(raw)
                /\ \A j \in 1 .. Len(raw) :
                      /\ legs[j].mode = "WALK" <=> raw[j].mode = "WALK"
                      /\ legs[j].polyline =
                            IF raw[j].points = Undefined THEN <<>>
                            ELSE DecodePolyline(raw[j].points[1])
                /\ RawOf(k) = WalkThenBus =>
                      /\ Len(legs) = 2
                      /\ legs[1].polyline = <<>>
                      /\ Len(legs[2].polyline) >= 2
                      /\ planned.value[k].transfers = 0

\* the response with the one itinerary WALK without geometry, then BUS with
\* geometry, has been mapped
WalkThenBusMapped ==
    /\ Mapped
    /\ response.itineraries[1] = << WalkThenBus >>
    /\ Len(planned.value[1].legs) = 2

\* C16: every leg planJourney returns has a polyline that is empty or has at
\* least 2 points, whatever geometry string the engine sends.
PolylineEmptyOrTwoPoints ==
    planned.settled = "resolved" =>
        \A k \in 1 .. Len(planned.value) :
            \A j \in 1 .. Len(planned.value[k].legs) :
                \/ Len(planned.value[k].legs[j].polyline) = 0
                \/ Len(planned.value[k].legs[j].polyline) >= 2

\* C17: decodePolyline is total.  For every input string, also one that ends
\* inside a 5-bit group or after a latitude without longitude and one with
\* code units below 63, it takes at most 2 * length + 3 steps, every step
\* before the return is defined, and it returns a sequence of coordinate
\* pairs after reading the whole string.
DecodeTotal ==
    decoder # NoDecoder =>
        /\ decoder.steps <= 2 * Len(decoder.encoded) + 3
        /\ decoder.pc # "return" => ENABLED Decode
        /\ decoder.pc = "return" =>
              /\ decoder.index >= Len(decoder.encoded)
              /\ \A k \in 1 .. Len(decoder.points) :
                    /\ Len(decoder.points[k]) = 2
                    /\ decoder.points[k][1] \in Int
                    /\ decoder.points[k][2] \in Int

\* a string with a code unit below 63 that ends inside a 5-bit group of a
\* longitude has been decoded
TruncatedInputDecoded ==
    /\ decoder # NoDecoder
    /\ decoder.pc = "return"
    /\ Len(decoder.encoded) > 0
    /\ Continues(decoder.encoded[Len(decoder.encoded)])
    /\ \E k \in 1 .. Len(decoder.encoded) : decoder.encoded[k] < 63
    /\ decoder.index > Len(decoder.encoded)
    /\ Len(decoder.points) > 0

\* (38.5,-120.2), (40.7,-120.95), (43.252,-126.453)
ReferencePoints ==
    << <<3850000, 0 - 12020000>>, <<4070000, 0 - 12095000>>,
       <<4325200, 0 - 12645300>> >>

\* C18: decodePolyline agrees with the reference polyline algorithm on
\* well-formed input: "" decodes to the empty sequence, the string encoding
\* the deltas d1..dn decodes to the running sums of d1..dk (k = 1..n) over
\* 1e5 in encoding order, and the reference string decodes to
\* (38.5,-120.2), (40.7,-120.95), (43.252,-126.453).
DecodeMatchesReference ==
    (decoder # NoDecoder /\ decoder.pc = "return") =>
        /\ decoder.encoded = <<>> => decoder.points = <<>>
        /\ decoder.encoded = ReferenceString => decoder.points = ReferencePoints
        /\ \A ds \in DeltaSeqs :
              decoder.encoded = Encode(ds) => decoder.points = RunningSums(ds)

\* the reference string has been decoded
ReferenceStringDecoded ==
    /\ decoder # NoDecoder
    /\ decoder.pc = "return"
    /\ decoder.encoded = ReferenceString
    /\ Len(decoder.points) = 3

\* the stored records of an entity created less than 30 days before now
RecentOf(villageId) ==
    { k \in 1 .. Len(GetDemands) :
        /\ GetDemands[k].villageId = villageId
        /\ clock - GetDemands[k].createdAt < 30 }

\* C19: a successful addDemand for entity x appends exactly one record, which
\* carries the submitted fields, to the persisted collection; countFor(x)
\* grows by exactly 1 and the count of every other entity stays as it was; on
\* an empty ledger countFor(x) is 1 afterwards.
AddAppendsOneRecord ==
    [][ (uuids' # uuids /\ ledgerRet'.op = "addDemand" /\ ~ledgerRet'.threw)
        => LET new == ledgerRet'.value
           IN  /\ GetDemands' = Append(GetDemands, new)
               /\ \E demand \in Submissions :
                     /\ new.villageId = demand.villageId
                     /\ new.originCity = demand.originCity
                     /\ new.desiredDate = demand.desiredDate
                     /\ new.partySize = demand.partySize
                     /\ new.email = demand.email
               /\ \A v \in VillageIds :
                     DemandCountForVillage(v)' =
                        DemandCountForVillage(v) + (IF v = new.villageId THEN 1 ELSE 0)
               /\ \A v \in VillageIds :
                     (GetDemands = <<>> /\ v = new.villageId)
                     => DemandCountForVillage(v)' = 1
      ]_vars

\* a demand for one entity has been added to a ledger that held a record of
\* the other entity
AddedToNonEmptyLedger ==
    /\ ledgerRet.op = "addDemand"
    /\ ~ledgerRet.threw
    /\ Len(GetDemands) >= 2
    /\ GetDemands[Len(GetDemands)] = ledgerRet.value
    /\ GetDemands[1].villageId # ledgerRet.value.villageId

\* C20: getDemandCountForVillage(entity) returns exactly the number of stored
\* records of that entity whose createdAt lies less than 30 days back from
\* the time of the call; a record created 40 days ago is never counted.
CountIsWindowed ==
    (/\ ledgerRet.op = "getDemandCountForVillage"
     /\ ~ledgerRet.threw
     /\ ledgerRet.value.at = clock) =>
        /\ ledgerRet.value.count = Cardinality(RecentOf(ledgerRet.value.villageId))
        /\ \A k \in 1 .. Len(GetDemands) :
              clock - GetDemands[k].createdAt >= 40
              => k \notin RecentOf(ledgerRet.value.villageId)

\* the count of an entity was taken while the ledger held one record of it
\* created 40 days ago and one created less than 30 days ago
CountedWithOldRecord ==
    /\ ledgerRet.op = "getDemandCountForVillage"
    /\ ledgerRet.value.at = clock
    /\ ledgerRet.value.count = 1
    /\ \E k \in 1 .. Len(GetDemands) :
          /\ GetDemands[k].villageId = ledgerRet.value.villageId
          /\ clock - GetDemands[k].createdAt = 40

\* C21: when localStorage.setItem throws inside addDemand, addDemand throws,
\* the stored item is what it was, and neither count of useDemand nor the
\* cached demandCounts changes.
PersistFailureChangesNothing ==
    [][ (/\ ledgerRet'.op = "addDemand"
         /\ uuids' # uuids
         /\ ledgerRet'.setItem = "threw")
        => /\ ledgerRet'.threw
           /\ store' = store
           /\ sidebarCount' = sidebarCount
           /\ dialogCount' = dialogCount
           /\ demandCounts' = demandCounts
      ]_vars

\* the dialog's request could not be stored after an earlier one had been
\* stored and counted
PersistFailedAfterSuccess ==
    /\ ledgerRet.op = "addDemand"
    /\ ledgerRet.setItem = "threw"
    /\ ledgerRet.value.villageId = sheetVillage
    /\ Len(GetDemands) = 1
    /\ dialogCount = 1

\* C22: getDemands never throws and returns an array whatever the item holds
\* (nothing, text that is not JSON, JSON that is no array of records) and
\* also when the storage cannot be read, the empty array when the item is
\* corrupt or unreadable; getDemandCountForVillage and getAllDemandCounts
\* never throw either.
ReadsFailSoft ==
    /\ ledgerRet.op = "getDemands" =>
          /\ ~ledgerRet.threw
          /\ ledgerRet.value.kind = "array"
          /\ (store # NoItem /\ store[1].kind # "array")
             => ledgerRet.value.items = <<>>
    /\ ledgerRet.op \in {"getDemandCountForVillage", "getAllDemandCounts"}
       => ~ledgerRet.threw

\* the sequence a is the beginning of the sequence b
IsPrefix(a, b) ==
    /\ Len(a) <= Len(b)
    /\ \A k \in 1 .. Len(a) : b[k] = a[k]

\* C23: over every step of addDemand, getDemands, getDemandCountForVillage
\* and getAllDemandCounts the stored collection before the step is the
\* beginning of the stored collection after it: no record is changed, moved
\* or removed.
LedgerAppendOnly ==
    [][ IsPrefix(GetDemands, GetDemands') ]_vars

\* the collection has been read after two records had been stored
ListedAfterTwoAdds ==
    /\ ledgerRet.op = "getDemands"
    /\ Len(ledgerRet.value.items) >= 2
    /\ ledgerRet.value.items = GetDemands

\* C24: prepopulateDemands with force = false on a store that holds records
\* leaves the item as it is; with force = true no record that was stored
\* before the call is stored after it.
SeedRespectsForce ==
    [][ ledgerRet'.op = "prepopulateDemands"
        => /\ (~ledgerRet'.value.force /\ Len(GetDemands) > 0) => store' = store
           /\ ledgerRet'.value.force
              => \A k \in 1 .. Len(GetDemands) :
                    \A j \in 1 .. Len(GetDemands') :
                       GetDemands'[j] # GetDemands[k]
      ]_vars

\* a forced seeding has replaced stored records by seeded ones
ForcedSeedOverRecords ==
    /\ ledgerRet.op = "prepopulateDemands"
    /\ ledgerRet.value.force
    /\ ledgerRet.value.existing > 0
    /\ Len(GetDemands) > 0
    /\ seeded > 0

\* C25: in a build whose DEBUG_MODE is off no step of a session, a start of
\* the application included, seeds the store, and every record addDemand has
\* stored is still stored, at its place, after every later step.
GenuineRecordsSurviveStarts ==
    [][ ~debugMode
        => /\ seeded' = 0
           /\ IsPrefix(GetDemands, GetDemands')
      ]_vars

\* the application has been started again, DEBUG_MODE being off, after a
\* request had been stored
StartedAgainAfterSubmission ==
    /\ ~debugMode
    /\ page = "open"
    /\ ledgerRet.op = "getAllDemandCounts"
    /\ Len(GetDemands) > 0
    /\ \A k \in 1 .. Len(GetDemands) : GetDemands[k].id <= uuids - seeded

\* C26: in every state the origin is the device location when there is one,
\* whatever city is or would be chosen; the coordinate of the chosen city is
\* the origin only while there is no device location; and the calls a handler
\* issues start from that origin.
DeviceLocationTakesPrecedence ==
    /\ userLocation # NoCoord =>
          /\ Origin = userLocation
          /\ \A city \in CityChoices : OriginOf(userLocation, city) = Origin
    /\ (selectedCity # NoCity /\ Origin = CITY_COORDS[selectedCity])
       => userLocation = NoCoord
    /\ (userLocation = NoCoord /\ selectedCity # NoCity)
       => Origin = CITY_COORDS[selectedCity]
    /\ calls # <<>> => calls[1].from = Origin /\ calls[2].to = Origin

\* the device location arrived after a city had been chosen, and the routes
\* were fetched again from the device location
LocatedAfterCityChosen ==
    /\ userLocation # NoCoord
    /\ selectedCity # NoCity
    /\ last.op = "geoSuccess"
    /\ calls # <<>>
    /\ calls[1].from = userLocation

\* C27: once geolocation is denied, has failed or is not supported there is
\* no device location; while no city is chosen the origin is unset and no
\* fetch has been issued, and once a city is chosen the origin is that city's
\* entry of CITY_COORDS.
NoOriginUntilCityPicked ==
    locationError # NoError =>
        /\ userLocation = NoCoord
        /\ selectedCity = NoCity =>
              /\ Origin = NoCoord
              /\ issued = 0
              /\ fetches = EmptyBag
              /\ calls = <<>>
        /\ selectedCity # NoCity =>
              /\ selectedCity \in CITIES
              /\ Origin = CITY_COORDS[selectedCity]

\* geolocation was denied, a city was picked and the routes were fetched
\* from the city's coordinate
CityPickedAfterDenial ==
    /\ locationError \in GeoErrors
    /\ last.op = "setSelectedCity"
    /\ calls # <<>>
    /\ calls[1].from = CITY_COORDS[selectedCity]

\* C28: once the device location is set no step changes it or unsets it.
DeviceLocationFixed ==
    [][ userLocation # NoCoord => userLocation' = userLocation ]_vars

\* the device location is set and the selection has been cleared since
ClearedAfterLocated ==
    /\ userLocation # NoCoord
    /\ last.op = "setSelectedVillage"
    /\ last.village
    /\ selectedVillage = NoVillage

\* C29: while a fetch issued for the selected village and the current origin
\* is outstanding, routesLoading is true.
LoadingWhileCurrentFetchOutstanding ==
    (\E f \in BagToSet(fetches) :
        f.village = selectedVillage /\ f.origin = Origin)
    => routesLoading

\* selecting a village, clearing the selection and choosing a city are
\* possible, the latter where the selector is rendered, as long as the
\* session has fetches left
SelectionStaysEnabled ==
    /\ \A village \in Villages :
          issued < MaxFetches => ENABLED SetSelectedVillage(village)
    /\ selectedVillage # NoVillage => ENABLED SetSelectedVillage(NoVillage)
    /\ \A city \in CityChoices :
          (selectedVillage # NoVillage /\ userLocation = NoCoord /\ issued < MaxFetches)
          => ENABLED SetSelectedCity(city)

\* the list of the direction has an itinerary at the index
CardExists(direction, index) ==
    /\ selectedVillage # NoVillage
    /\ index \in 0 .. (Len(RouteList(direction)) - 1)

\* C30 as stated: when every call settles loading becomes false in the end,
\* and while a fetch is outstanding selecting a village, clearing, choosing a
\* city and choosing any itinerary of the lists are all possible.
HungCallBlocksNothing ==
    /\ routesLoading ~> ~routesLoading
    /\ [](fetches # EmptyBag =>
            /\ SelectionStaysEnabled
            /\ \A d \in Directions, i \in 0 .. (MaxRoutes - 1) :
                  CardExists(d, i) => ENABLED OnSelect(d, i))

\* C30 amended: when every call settles loading becomes false in the end;
\* while a fetch is outstanding selecting a village, clearing and choosing a
\* city are possible, and an itinerary of the lists can be chosen exactly
\* when routesLoading is false.
LoadingEndsAndSelectionStaysEnabled ==
    /\ routesLoading ~> ~routesLoading
    /\ [](fetches # EmptyBag =>
            /\ SelectionStaysEnabled
            /\ \A d \in Directions, i \in 0 .. (MaxRoutes - 1) :
                  ENABLED OnSelect(d, i) <=> (CardExists(d, i) /\ ~routesLoading))

\* a village was selected while the fetch of another was outstanding, and
\* both fetches have completed
LoadingEndedAfterSupersededFetch ==
    /\ issued >= 2
    /\ fetches = EmptyBag
    /\ ~routesLoading
    /\ routesSource # NoSource
    /\ routesSource.village # selectedVillage
    /\ selectedVillage # NoVillage

\* C31: in every reachable state routesError is null, whatever the routing
\* engine answers: not found, a server error, a failed request or a body
\* without itineraries.
RoutesErrorNeverSet ==
    routesError = NoError

\* a fetch has completed and left both lists empty, as every failure of the
\* routing engine does
FetchCompletedEmpty ==
    /\ issued > 0
    /\ fetches = EmptyBag
    /\ ~routesLoading
    /\ routesSource # NoSource
    /\ routesToVillage = <<>>
    /\ routesFromVillage = <<>>

\* C32: on every store that holds an array, and at every time,
\* getAllDemandCounts() has for each village the value
\* getDemandCountForVillage gives when that is positive, and no entry when
\* it is 0; it has entries for villages only.
CountsAgree ==
    IsArray =>
        /\ DOMAIN AllDemandCounts \subseteq VillageIds
        /\ \A v \in VillageIds :
              IF DemandCountForVillage(v) > 0
              THEN /\ v \in DOMAIN AllDemandCounts
                   /\ AllDemandCounts[v] = DemandCountForVillage(v)
              ELSE v \notin DOMAIN AllDemandCounts

\* getAllDemandCounts has just returned an entry for one village and none for
\* the other, whose only records are older than 30 days
CountedOneVillageOfTwo ==
    /\ ledgerRet.op = "getAllDemandCounts"
    /\ ~ledgerRet.threw
    /\ DOMAIN ledgerRet.value = DOMAIN AllDemandCounts
    /\ Cardinality(DOMAIN ledgerRet.value) = 1
    /\ \E k \in 1 .. Len(GetDemands) :
          GetDemands[k].villageId \notin DOMAIN ledgerRet.value

\* C33: after every sequence of addDemand and prepopulateDemands calls the
\* stored records have pairwise distinct ids.
IdsDistinct ==
    \A j \in 1 .. Len(GetDemands) :
       \A k \in 1 .. Len(GetDemands) :
          j # k => GetDemands[j].id # GetDemands[k].id

\* a request has been added to a store that holds seeded records
AddedToSeededStore ==
    /\ ledgerRet.op = "addDemand"
    /\ ~ledgerRet.threw
    /\ seeded > 0
    /\ Len(GetDemands) >= 3
    /\ GetDemands[Len(GetDemands)] = ledgerRet.value

\* C34: every record that the dialog or the seeding has stored carries a
\* whole party size from 1 to 8, whatever was pressed or typed in the form.
PartySizeInRange ==
    \A k \in 1..Len(GetDemands) : GetDemands[k].partySize \in 1..8

\* a request for eight was stored from the dialog on top of seeded records
StoredEightOverSeeded ==
    /\ ledgerRet.op = "addDemand"
    /\ ~ledgerRet.threw
    /\ ledgerRet.value.partySize = 8
    /\ seeded > 0
    /\ Len(GetDemands) > 1
    /\ GetDemands[Len(GetDemands)].partySize = 8

\* C35: a mapped leg has mode WALK exactly when the mode of its raw leg is
\* the string 'WALK'; for every other raw mode, a missing one included, it
\* has mode TRANSIT, and when the raw itinerary supplies no transfers the
\* derived transfers count every such leg: max(0, legs whose raw mode is not
\* 'WALK' - 1).
OnlyExactWalkIsWalk ==
    Mapped =>
        \A k \in 1 .. Len(planned.value) :
            LET legs == planned.value[k].legs
                raw  == RawOf(k).legs[1]
            IN  /\ \A j \in 1 .. Len(raw) :
                      /\ raw[j].mode = "WALK" => legs[j].mode = "WALK"
                      /\ raw[j].mode # "WALK" => legs[j].mode = "TRANSIT"
                /\ RawOf(k).transfers = Undefined =>
                      planned.value[k].transfers =
                          Max(0, Cardinality({ j \in 1 .. Len(raw) :
                                                 raw[j].mode # "WALK" }) - 1)

\* an itinerary without transfers whose two legs have the modes 'walk' and
\* none was mapped
LowerCaseWalkAndNoModeMapped ==
    /\ Mapped
    /\ \E k \in 1 .. Len(planned.value) :
          /\ RawOf(k).transfers = Undefined
          /\ Len(RawOf(k).legs[1]) = 2
          /\ RawOf(k).legs[1][1].mode = "walk"
          /\ RawOf(k).legs[1][2].mode = "undefined"
          /\ planned.value[k].transfers = 1

\* C36: writers are not coordinated and every write replaces the whole
\* collection: whenever tabs have each read the collection and written back
\* their own copy with their record added, the store holds exactly the
\* collection of the tab that wrote last.
LastWriterWins ==
    lastWriter # NoWriter => store = << JsonArray(tabs[lastWriter].written) >>

\* both tabs read the collection before either wrote, both have written, and
\* the record of the one that wrote first is no longer stored
FirstWriteLost ==
    /\ lastWriter # NoWriter
    /\ \A t \in Tabs : tabs[t].pc = "idle" /\ Len(tabs[t].written) = 1
    /\ \E t \in Tabs : tabs[t].written # tabs[lastWriter].written
    /\ Len(GetDemands) = 1

\* C37: planJourney maps a success response all or nothing: when every raw
\* itinerary has a legs array the result has one mapped itinerary for each
\* raw itinerary, in the same order; when one raw itinerary has no legs
\* array, or itineraries is no array, the result is the empty sequence.
MappedAllOrNothing ==
    (/\ planned # NotPlanned
     /\ response.kind = "status"
     /\ response.status = 200)
    => /\ response.body = "itinerariesNoArray" => planned.value = <<>>
       /\ response.itineraries # Undefined =>
             LET its == response.itineraries[1]
             IN  IF \A k \in 1 .. Len(its) : its[k].legs # Undefined
                 THEN /\ Len(planned.value) = Len(its)
                      /\ \A k \in 1 .. Len(its) :
                            /\ Len(planned.value[k].legs) = Len(its[k].legs[1])
                            /\ planned.value[k].duration = OrZero(its[k].duration)
                 ELSE planned.value = <<>>

\* C38: when a request for the selected village has been stored from the
\* demand dialog, the count of the useDemand of the sidebar and the count of
\* the useDemand of the dialog both equal what getDemandCountForVillage
\* gives for that village.
HookCountsFollowLedger ==
    [][ (showConfirmation' /\ ~showConfirmation)
        => /\ dialogCount' = DemandCountForVillage(sheetVillage)'
           /\ sidebarCount' = DemandCountForVillage(sheetVillage)'
      ]_vars

====
